---- MODULE Spec2Model ----
(***************************************************************************)
(* Model of the notes organizer of apto                                    *)
(* (src/src/lib/components/notes/NotesManagement.svelte): the debounced    *)
(* search, the folder-scoped reload after every write and the selection    *)
(* that is reconciled against each reload.  The component is one           *)
(* single-threaded actor: a step of the model is one event handler run up  *)
(* to its next await, or one command response together with the            *)
(* continuation that the response resumes.                                 *)
(***************************************************************************)
EXTENDS Integers, Sequences, FiniteSets, Bags, TLC

(***************************************************************************)
(* Bounds of the model.                                                    *)
(***************************************************************************)
MaxEvents == 2        \* user events (clicks, keystrokes) of one behaviour
MaxInFlight == 2      \* commands awaiting their response at one time
MaxSortLen == 3       \* notes of a collection given to sortNotes
MaxTime == 3          \* distinct updated_at values of those notes
MaxFolders == 3       \* folders of a folder list given to buildFolderHierarchy

Null == 0             \* null of an id: ids are positive, and 0 is falsy as null is

(***************************************************************************)
(* Text: a string is the sequence of its characters.                       *)
(***************************************************************************)
toLowerCase(s) ==
  [i \in 1..Len(s) |-> IF s[i] = "A" THEN "a" ELSE IF s[i] = "B" THEN "b" ELSE s[i]]

includes(hay, needle) ==
  \E i \in 0..(Len(hay) - Len(needle)) : SubSeq(hay, i + 1, i + Len(needle)) = needle

RECURSIVE trimStart(_)
trimStart(s) == IF s # <<>> /\ Head(s) = " " THEN trimStart(Tail(s)) ELSE s

RECURSIVE trimEnd(_)
trimEnd(s) ==
  IF s # <<>> /\ s[Len(s)] = " " THEN trimEnd(SubSeq(s, 1, Len(s) - 1)) ELSE s

trim(s) == trimEnd(trimStart(s))

Range(s) == {s[i] : i \in 1..Len(s)}

(***************************************************************************)
(* The external collaborator (the command interface of section 6 of the    *)
(* specification).  Its code is not part of the sources; it is modelled    *)
(* from the command names and the specification.                           *)
(***************************************************************************)

dbFolders == << [id |-> 1, name |-> "F1", parent_id |-> Null] >>

dbTags == << [id |-> 1, name |-> "t", color |-> "#ff0000"] >>

NoNote ==
  [st |-> "unused", title |-> <<>>, content |-> <<>>, folder_id |-> Null,
   is_pinned |-> FALSE, updated_at |-> 0, tags |-> <<>>]

\* the notes stored when the component is constructed
StoredNotes ==
  << [st |-> "live", title |-> <<"A", "b">>, content |-> <<>>, folder_id |-> Null,
      is_pinned |-> FALSE, updated_at |-> 1, tags |-> <<"t">>],
     [st |-> "live", title |-> <<"b">>, content |-> <<"a">>, folder_id |-> 1,
      is_pinned |-> FALSE, updated_at |-> 1, tags |-> <<>>] >>

\* every create is a user event, so these ids suffice
MaxNotes == Len(StoredNotes) + MaxEvents

NoteIds == 1..MaxNotes

InitialDb == [i \in NoteIds |-> IF i <= Len(StoredNotes) THEN StoredNotes[i] ELSE NoNote]

\* a stored note as the collaborator returns it
NoteOf(d, i) ==
  [id |-> i, title |-> d[i].title, content |-> d[i].content,
   folder_id |-> d[i].folder_id, is_pinned |-> d[i].is_pinned,
   updated_at |-> d[i].updated_at, tags |-> d[i].tags]

RECURSIVE ListFrom(_, _, _)
ListFrom(d, keep, i) ==
  IF i > MaxNotes THEN <<>>
  ELSE IF d[i].st = "live" /\ i \in keep THEN <<NoteOf(d, i)>> \o ListFrom(d, keep, i + 1)
  ELSE ListFrom(d, keep, i + 1)

\* the folder f and every folder below it
RECURSIVE Subtree(_, _)
Subtree(fs, n) ==
  IF n = 0 THEN fs
  ELSE Subtree(fs \cup {dbFolders[k].id : k \in {j \in 1..Len(dbFolders) :
                                               dbFolders[j].parent_id \in fs}}, n - 1)

get_notes(d) == ListFrom(d, NoteIds, 1)

get_notes_by_folder(d, folderId) ==
  ListFrom(d, {i \in NoteIds : d[i].folder_id = folderId}, 1)

get_notes_by_folder_recursive(d, folderId, incl) ==
  LET scope == IF incl THEN Subtree({folderId}, Len(dbFolders)) ELSE {folderId}
  IN ListFrom(d, {i \in NoteIds : d[i].folder_id \in scope}, 1)

search_notes(d, query) ==
  ListFrom(d, {i \in NoteIds :
                 \/ includes(toLowerCase(d[i].title), toLowerCase(query))
                 \/ includes(toLowerCase(d[i].content), toLowerCase(query))}, 1)

FreeIds(d) == {i \in NoteIds : d[i].st = "unused"}

NewId(d) == CHOOSE i \in FreeIds(d) : \A j \in FreeIds(d) : i <= j

create_note(d, now, a) ==
  [d EXCEPT ![NewId(d)] =
     [st |-> "live", title |-> a.title, content |-> a.content,
      folder_id |-> a.folderId, is_pinned |-> a.isPinned,
      updated_at |-> now, tags |-> a.tags]]

update_note(d, now, a) ==
  IF d[a.id].st # "live" THEN d
  ELSE [d EXCEPT ![a.id] =
          [st |-> "live", title |-> a.title, content |-> a.content,
           folder_id |-> a.folderId, is_pinned |-> a.isPinned,
           updated_at |-> now, tags |-> a.tags]]

delete_note(d, id) ==
  IF d[id].st # "live" THEN d
  ELSE [d EXCEPT ![id] = [NoNote EXCEPT !.st = "deleted"]]

toggle_note_pin(d, id) ==
  IF d[id].st # "live" THEN d
  ELSE [d EXCEPT ![id].is_pinned = ~d[id].is_pinned]

(***************************************************************************)
(* State of the component (NotesManagement.svelte lines 12-37), the timer  *)
(* table of the window, the commands awaiting their response, and          *)
(* the history the properties below speak about.                           *)
(***************************************************************************)
VARIABLES
  db, clock,                              \* the collaborator's store
  notes, allNotes, folders, tags, folderHierarchy,
  selectedNote, isCreatingNew,            \* selectedNote: <<>> is null, <<n>> a note
  isLoading, isSearching,
  searchQuery, searchTimeout,
  selectedFolderId, includeSubfolders,
  showDeleteModal, noteToDelete,          \* noteToDelete: <<>> is null
  timers, nextTimer,                      \* pending setTimeout ids, next id
  tasks,                                  \* bag of invoked commands in flight
  resume,                                 \* handler to resume after its awaited reload,
                                          \* and whether that reload succeeded
  mountPending,                           \* loads Promise.all of onMount waits for
  last,                                   \* history: the step taken last
  burst,                                  \* history: the current run of keystrokes
  lastLoaded,                             \* history: last successfully loaded collection
  events,                                 \* history: user events so far
  clearView,                              \* history: "pending" from clearSearch until its
                                          \* reload resolves, then "restored" until the
                                          \* next user event or failed load
  rendered,                               \* the collection NotesList was last given
  editor,                                 \* the form state of NoteEditor: <<>> when no
                                          \* editor of a saved note is open
  tagStore,                               \* the tags the collaborator holds
  hexColor, textColor,                    \* NotesList: a background color and the text
                                          \* color computed for it, "" before that
  habitName, habitFrequencyType,          \* HabitTracking: the form
  habitFrequencyDays, habitFrequencyInterval, habitFrequencyCustomPattern,
  habits, habitsLoading,                  \* its list and its isLoading
  statusMessage, isSuccess,
  resetTimers,                            \* pending setTimeout calls of resetForm
  habitStore,                             \* the habits the collaborator holds
  frequency, display,                     \* a frequency encoded from the form and its
                                          \* display text: <<>> and "" before that
  tagManagement, folderModal,             \* the tag manager and FolderModal: creation
                                          \* form, error text and list (and view)
  folderStore                             \* the folders the collaborator holds

backendVars == <<db, clock>>
listVars == <<notes, allNotes, folders, tags, folderHierarchy>>
selVars == <<selectedNote, isCreatingNew>>
searchVars == <<searchQuery, searchTimeout, timers, nextTimer>>
navVars == <<selectedFolderId, includeSubfolders>>
modalVars == <<showDeleteModal, noteToDelete>>
contrastVars == <<hexColor, textColor>>
habitFormVars ==
  <<habitName, habitFrequencyType, habitFrequencyDays, habitFrequencyInterval,
    habitFrequencyCustomPattern>>
habitVars ==
  <<habitFormVars, habits, habitsLoading, statusMessage, isSuccess, resetTimers, habitStore,
    frequency, display>>
managerVars == <<tagManagement, folderModal, folderStore>>
asideVars == <<editor, tagStore, contrastVars, habitVars, managerVars>>   \* other components
eventVars == <<events, clearView, rendered, asideVars>>

vars ==
  <<db, clock, notes, allNotes, folders, tags, folderHierarchy, selectedNote,
    isCreatingNew, isLoading, isSearching, searchQuery, searchTimeout,
    selectedFolderId, includeSubfolders, showDeleteModal, noteToDelete,
    timers, nextTimer, tasks, resume, mountPending, last, burst, lastLoaded,
    events, clearView, rendered, editor, tagStore,
    hexColor, textColor, habitName, habitFrequencyType, habitFrequencyDays,
    habitFrequencyInterval, habitFrequencyCustomPattern, habits, habitsLoading,
    statusMessage, isSuccess, resetTimers, habitStore, frequency, display, tagManagement,
    folderModal, folderStore>>

(***************************************************************************)
(* Inputs of the handlers.                                                 *)
(***************************************************************************)
QueryTexts == {<<>>, <<" ">>, <<"a">>, <<"a", "b">>}

EditorTitles == {<<"a">>}

LoadCmds == {"get_notes", "get_notes_by_folder", "get_notes_by_folder_recursive"}

InFlight == BagCardinality(tasks)

Step(op, id) == op

(***************************************************************************)
(* Pure helpers of the component.                                          *)
(***************************************************************************)
\* Array.prototype.find on the id: <<>> when no element has it
find(ns, id) ==
  LET idx == {k \in 1..Len(ns) : ns[k].id = id}
  IN IF idx = {} THEN <<>>
     ELSE <<ns[CHOOSE k \in idx : \A j \in idx : k <= j]>>

\* color of the first tag of the list with this name, "" when none
tagColorOf(tagName, tagsList) ==
  LET idx == {k \in 1..Len(tagsList) : tagsList[k].name = tagName}
  IN IF idx = {} THEN ""
     ELSE tagsList[CHOOSE k \in idx : \A j \in idx : k <= j].color

\* a comparator that looks at the dates only
compareByDate(a, b) == b.updated_at - a.updated_at

\* a comparator that puts the oldest note of a group first
compareOldestFirst(a, b) ==
  IF a.is_pinned /\ ~b.is_pinned THEN -1
  ELSE IF ~a.is_pinned /\ b.is_pinned THEN 1
  ELSE a.updated_at - b.updated_at

\* the comparator of sortNotes (lines 41-50); updated_at is the time value
\* new Date(...).getTime() gives
compareNotes(a, b) ==
  IF a.is_pinned /\ ~b.is_pinned THEN -1
  ELSE IF ~a.is_pinned /\ b.is_pinned THEN 1
  ELSE b.updated_at - a.updated_at

\* an insertion that puts a note before the notes it compares equal to
insertBeforeEquals(sorted, x) ==
  LET before == {k \in 0..Len(sorted) : \A j \in 1..k : compareNotes(sorted[j], x) < 0}
      n == CHOOSE k \in before : \A j \in before : j <= k
  IN SubSeq(sorted, 1, n) \o <<x>> \o SubSeq(sorted, n + 1, Len(sorted))

\* Array.prototype.sort is stable: a note goes behind every note of the
\* sorted prefix that does not compare greater than it
insertStable(sorted, x) ==
  LET before == {k \in 0..Len(sorted) : \A j \in 1..k : compareNotes(sorted[j], x) <= 0}
      n == CHOOSE k \in before : \A j \in before : j <= k
  IN SubSeq(sorted, 1, n) \o <<x>> \o SubSeq(sorted, n + 1, Len(sorted))

\* sortNotes (lines 40-51): a sorted copy, the argument is left alone
RECURSIVE sortNotes(_)
sortNotes(notesToSort) ==
  IF notesToSort = <<>> THEN <<>>
  ELSE insertStable(sortNotes(SubSeq(notesToSort, 1, Len(notesToSort) - 1)),
                    notesToSort[Len(notesToSort)])

\* a map that leaves every note without tag colors
prepareNotesWithoutColors(loadedNotes, tagsList) ==
  [k \in 1..Len(loadedNotes) |-> [tag_colors |-> {}] @@ loadedNotes[k]]

prepareNotesWithTagColors(loadedNotes, tagsList) ==
  [k \in 1..Len(loadedNotes) |->
     [tag_colors |-> {<<nm, tagColorOf(nm, tagsList)>> :
                        nm \in {x \in Range(loadedNotes[k].tags) :
                                  tagColorOf(x, tagsList) # ""}}]
     @@ loadedNotes[k]]

\* a filter that gives the folders of a parent in reverse order
subfoldersReversed(fs, parentId) ==
  LET sub == SelectSeq(fs, LAMBDA f : f.parent_id = parentId)
  IN [k \in 1..Len(sub) |-> sub[Len(sub) + 1 - k]]

\* folders.filter((f) => f.parent_id === parentId) (lines 165, 189)
\* a filter that finds no folder under any parent
subfoldersNone(fs, parentId) == <<>>

subfoldersOf(fs, parentId) == SelectSeq(fs, LAMBDA f : f.parent_id = parentId)

\* a flag that is never set
hasChildrenNever(fs, id) == FALSE

\* folders.some((f) => f.parent_id === folder.id) (lines 171, 196)
hasChildren(fs, id) == \E j \in 1..Len(fs) : fs[j].parent_id = id

RECURSIVE addSubfoldersToHierarchy(_, _, _)
addSubfoldersToHierarchy(fs, parentId, level) ==
  LET sub == subfoldersOf(fs, parentId)
      Walk[k \in 0..Len(sub)] ==
        IF k = 0 THEN <<>>
        ELSE Walk[k - 1]
             \o << [id |-> sub[k].id, name |-> sub[k].name,
                    parent_id |-> sub[k].parent_id, level |-> level,
                    hasChildren |-> hasChildren(fs, sub[k].id)] >>
             \o addSubfoldersToHierarchy(fs, sub[k].id, level + 1)
  IN Walk[Len(sub)]

\* a hierarchy without the entry of all notes
hierarchyOfFoldersOnly(fs) == addSubfoldersToHierarchy(fs, Null, 1)

\* a hierarchy that lists every folder of the list, whatever its parent
hierarchyOfEveryFolder(fs) ==
  << [id |-> Null, name |-> "All Notes", parent_id |-> Null, level |-> 0,
      hasChildren |-> FALSE] >>
  \o [k \in 1..Len(fs) |-> [id |-> fs[k].id, name |-> fs[k].name,
                            parent_id |-> fs[k].parent_id, level |-> 1,
                            hasChildren |-> hasChildren(fs, fs[k].id)]]

buildFolderHierarchy(fs) ==
  << [id |-> Null, name |-> "All Notes", parent_id |-> Null, level |-> 0,
      hasChildren |-> FALSE] >>
  \o addSubfoldersToHierarchy(fs, Null, 1)

\* the command loadNotesBasedOnSelection invokes for a folder selection
LoadTask(folderId, incl, cont, cid) ==
  [cmd |-> IF folderId = Null
           THEN (IF incl THEN "get_notes" ELSE "get_notes_by_folder")
           ELSE "get_notes_by_folder_recursive",
   arg |-> [folderId |-> folderId, includeSubfolders |-> incl],
   cont |-> cont, cid |-> cid]

LoadResult(d, t) ==
  IF t.cmd = "get_notes" THEN get_notes(d)
  ELSE IF t.cmd = "get_notes_by_folder" THEN get_notes_by_folder(d, Null)
  ELSE get_notes_by_folder_recursive(d, t.arg.folderId, t.arg.includeSubfolders)

\* the list is rendered (template lines 551-573)
ListShown == ~isLoading /\ ~isSearching /\ notes # <<>>

Idle == resume = <<>>

\* the other components before any use
\* HabitTracking once mounted over an empty store (lines 6-34)
HabitAtRest ==
  /\ habitName = <<>>
  /\ habitFrequencyType = "daily"
  /\ habitFrequencyDays = <<>>
  /\ habitFrequencyInterval = <<1>>
  /\ habitFrequencyCustomPattern = ""
  /\ habits = <<>>
  /\ habitsLoading = FALSE
  /\ statusMessage = <<>>
  /\ isSuccess = FALSE
  /\ resetTimers = 0
  /\ habitStore = <<>>
  /\ frequency = <<>>
  /\ display = ""

\* the managers after their mount has loaded the stored tags and folders
\* (NotesList.svelte lines 1055-1066, FolderModal.svelte lines 9-31), the
\* folder manager switched to its creation form (showView, lines 100-103)
ManagersAtRest ==
  /\ tagManagement = [newTagName |-> <<>>, errorMessage |-> "", tags |-> dbTags]
  /\ folderModal = [newFolderName |-> <<>>, errorMessage |-> "", folders |-> dbFolders,
                    view |-> "create"]
  /\ folderStore = dbFolders

AsideAtRest ==
  /\ editor = <<>>
  /\ tagStore = dbTags
  /\ hexColor = <<>>
  /\ textColor = ""
  /\ HabitAtRest
  /\ ManagersAtRest

\* a user event within the budget of the behaviour
UserEvent ==
  /\ events < MaxEvents
  /\ events' = events + 1
  /\ clearView' = "none"
  /\ UNCHANGED <<rendered, asideVars>>

Constructed ==
  /\ db = InitialDb
  /\ clock = 1
  /\ notes = <<>>
  /\ allNotes = <<>>
  /\ folders = <<>>
  /\ tags = <<>>
  /\ folderHierarchy = <<>>
  /\ selectedNote = <<>>
  /\ isCreatingNew = FALSE
  /\ isLoading = TRUE
  /\ isSearching = FALSE
  /\ searchQuery = <<>>
  /\ searchTimeout = Null
  /\ selectedFolderId = Null
  /\ includeSubfolders = TRUE
  /\ showDeleteModal = FALSE
  /\ noteToDelete = <<>>
  /\ timers = {}
  /\ nextTimer = 1
  /\ tasks = SetToBag({[cmd |-> "get_folders", arg |-> [x |-> 0], cont |-> "onMount", cid |-> 0],
                       [cmd |-> "get_all_note_tags", arg |-> [x |-> 0], cont |-> "onMount", cid |-> 0]})
  /\ resume = <<>>
  /\ mountPending = 2
  /\ last = Step("init", 0)
  /\ burst = [n |-> 0, typed |-> <<>>, pure |-> TRUE, issued |-> <<>>]
  /\ lastLoaded = <<>>
  /\ events = 0
  /\ clearView = "none"
  /\ rendered = <<>>

Init == Constructed /\ AsideAtRest

(***************************************************************************)
(* Timers and commands.                                                    *)
(***************************************************************************)
\* a handler that forgets to cancel the pending timer
clearTimeoutMissing(ts, id) == ts

clearTimeout(ts, id) == ts \ {id}

Issue(t) == tasks (+) SetToBag({t})

Done(t) == tasks (-) SetToBag({t})

HasRoom == InFlight < MaxInFlight

Pending(cmds, cont) == {t \in BagToSet(tasks) : t.cmd \in cmds /\ t.cont = cont}

\* a reload that keeps a selection the reloaded collection no longer holds
reconcileKeepsStale(sel, ns) ==
  IF sel = <<>> THEN <<>> ELSE IF find(ns, sel[1].id) # <<>> THEN find(ns, sel[1].id) ELSE sel

\* selection after a reload (lines 120-129)
reconcile(sel, ns) == IF sel = <<>> THEN <<>> ELSE find(ns, sel[1].id)

\* the local filter performSearch falls back to (lines 264-268)
localFilter(ns, q) ==
  SelectSeq(ns, LAMBDA note :
    \/ includes(toLowerCase(note.title), toLowerCase(q))
    \/ includes(toLowerCase(note.content), toLowerCase(q)))

EditorFolderIds == {Null} \cup {folders[k].id : k \in 1..Len(folders)}

(***************************************************************************)
(* Search (lines 233-280).                                                 *)
(***************************************************************************)
handleSearchInput(v) ==
  /\ Idle
  /\ UserEvent
  /\ searchQuery' = v
  /\ timers' = (IF searchTimeout # Null THEN clearTimeout(timers, searchTimeout)
                ELSE timers) \cup {nextTimer}
  /\ searchTimeout' = nextTimer
  /\ nextTimer' = nextTimer + 1
  /\ burst' = IF timers = {}
              THEN [n |-> 1, typed |-> v, pure |-> TRUE, issued |-> <<>>]
              ELSE [burst EXCEPT !.n = @ + 1, !.typed = v, !.pure = TRUE]
  /\ last' = Step("handleSearchInput", nextTimer)
  /\ UNCHANGED <<backendVars, listVars, selVars, isLoading, isSearching, navVars,
                 modalVars, tasks, resume, mountPending, lastLoaded>>

\* a test of the exact text, white space included
isBlankUntrimmed(q) == q = <<>>

\* !searchQuery.trim() (line 250)
isBlank(q) == trim(q) = <<>>

\* the timer callback: performSearch up to its await
performSearch(id) ==
  /\ Idle
  /\ id \in timers
  /\ HasRoom
  /\ timers' = timers \ {id}
  /\ IF isBlank(searchQuery)
     THEN /\ isLoading' = TRUE
          /\ tasks' = Issue(LoadTask(selectedFolderId, includeSubfolders, "none", 0))
          /\ UNCHANGED <<isSearching, burst>>
     ELSE /\ isSearching' = TRUE
          /\ tasks' = Issue([cmd |-> "search_notes", arg |-> [query |-> searchQuery],
                             cont |-> "performSearch", cid |-> 0])
          /\ burst' = [burst EXCEPT !.issued = Append(@, searchQuery)]
          /\ UNCHANGED isLoading
  /\ last' = Step("performSearch", id)
  /\ UNCHANGED <<eventVars, backendVars, listVars, selVars, searchQuery, searchTimeout, nextTimer,
                 navVars, modalVars, resume, mountPending, lastLoaded>>

\* a handler that drops the response of a query that is no longer the held one
performSearchResolvedIfCurrent(t) ==
  /\ Idle
  /\ t \in Pending({"search_notes"}, "performSearch")
  /\ notes' = IF t.arg.query = searchQuery
              THEN prepareNotesWithTagColors(search_notes(db, t.arg.query), tags)
              ELSE notes
  /\ isSearching' = FALSE
  /\ tasks' = Done(t)
  /\ last' = Step("performSearchResolved", 0)
  /\ UNCHANGED <<eventVars, backendVars, allNotes, folders, tags, folderHierarchy, selVars,
                 isLoading, searchVars, navVars, modalVars, resume, mountPending,
                 burst, lastLoaded>>

performSearchResolved(t) ==
  /\ Idle
  /\ t \in Pending({"search_notes"}, "performSearch")
  /\ notes' = prepareNotesWithTagColors(search_notes(db, t.arg.query), tags)
  /\ isSearching' = FALSE
  /\ tasks' = Done(t)
  /\ last' = Step("performSearchResolved", 0)
  /\ UNCHANGED <<eventVars, backendVars, allNotes, folders, tags, folderHierarchy, selVars,
                 isLoading, searchVars, navVars, modalVars, resume, mountPending,
                 burst, lastLoaded>>

performSearchRejected(t) ==
  /\ Idle
  /\ t \in Pending({"search_notes"}, "performSearch")
  /\ notes' = localFilter(allNotes, searchQuery)
  /\ isSearching' = FALSE
  /\ tasks' = Done(t)
  /\ last' = Step("performSearchRejected", 0)
  /\ UNCHANGED <<eventVars, backendVars, allNotes, folders, tags, folderHierarchy, selVars,
                 isLoading, searchVars, navVars, modalVars, resume, mountPending,
                 burst, lastLoaded>>

clearSearch ==
  /\ Idle
  /\ events < MaxEvents
  /\ events' = events + 1
  /\ clearView' = "pending"
  /\ UNCHANGED <<rendered, asideVars>>
  /\ HasRoom
  /\ searchQuery # <<>>
  /\ searchQuery' = <<>>
  /\ isLoading' = TRUE
  /\ tasks' = Issue(LoadTask(selectedFolderId, includeSubfolders, "none", 0))
  /\ burst' = [burst EXCEPT !.pure = FALSE]
  /\ last' = Step("clearSearch", 0)
  /\ UNCHANGED <<backendVars, listVars, selVars, isSearching, searchTimeout, timers,
                 nextTimer, navVars, modalVars, resume, mountPending, lastLoaded>>

(***************************************************************************)
(* Folder navigation (lines 204-220).                                      *)
(***************************************************************************)
selectFolder(e) ==
  /\ Idle
  /\ UserEvent
  /\ HasRoom
  /\ e \in Range(folderHierarchy)
  /\ selectedFolderId' = e.id
  /\ searchQuery' = <<>>
  /\ isLoading' = TRUE
  /\ tasks' = Issue(LoadTask(e.id, includeSubfolders, "none", 0))
  /\ burst' = IF searchQuery # <<>> THEN [burst EXCEPT !.pure = FALSE] ELSE burst
  /\ last' = Step("selectFolder", e.id)
  /\ UNCHANGED <<backendVars, listVars, selVars, isSearching, searchTimeout, timers,
                 nextTimer, includeSubfolders, modalVars, resume, mountPending,
                 lastLoaded>>

toggleIncludeSubfolders ==
  /\ Idle
  /\ UserEvent
  /\ HasRoom
  /\ includeSubfolders' = ~includeSubfolders
  /\ isLoading' = TRUE
  /\ tasks' = Issue(LoadTask(selectedFolderId, ~includeSubfolders, "none", 0))
  /\ last' = Step("toggleIncludeSubfolders", 0)
  /\ UNCHANGED <<backendVars, listVars, selVars, isSearching, searchVars,
                 selectedFolderId, modalVars, resume, mountPending, burst, lastLoaded>>

(***************************************************************************)
(* loadNotesBasedOnSelection after its await (lines 111-135).  A caller    *)
(* that awaits the reload resumes in the next step.                        *)
(***************************************************************************)
\* a catch block that only logs
notesKeptAfterFailedLoad(ns) == ns

\* the catch block of loadNotesBasedOnSelection (line 132)
notesAfterFailedLoad(ns) == <<>>

Resume(t, ok) ==
  IF t.cont = "none" THEN <<>> ELSE <<[cont |-> t.cont, cid |-> t.cid, ok |-> ok]>>

loadNotesResolved(t) ==
  /\ Idle
  /\ t \in BagToSet(tasks)
  /\ t.cmd \in LoadCmds
  /\ notes' = prepareNotesWithTagColors(LoadResult(db, t), tags)
  /\ selectedNote' = reconcile(selectedNote, notes')
  /\ isLoading' = FALSE
  /\ tasks' = Done(t)
  /\ resume' = Resume(t, TRUE)
  /\ lastLoaded' = notes'
  /\ clearView' = IF /\ clearView = "pending"
                     /\ t = LoadTask(selectedFolderId, includeSubfolders, "none", 0)
                  THEN "restored" ELSE clearView
  /\ last' = Step("loadNotesResolved", 0)
  /\ UNCHANGED <<events, rendered, asideVars, backendVars, allNotes, folders, tags,
                 folderHierarchy, isCreatingNew, isSearching, searchVars, navVars, modalVars,
                 mountPending, burst>>

loadNotesRejected(t) ==
  /\ Idle
  /\ t \in BagToSet(tasks)
  /\ t.cmd \in LoadCmds
  /\ notes' = notesAfterFailedLoad(notes)
  /\ isLoading' = FALSE
  /\ tasks' = Done(t)
  /\ resume' = Resume(t, FALSE)
  /\ clearView' = "none"
  /\ last' = Step("loadNotesRejected", 0)
  /\ UNCHANGED <<events, rendered, asideVars, backendVars, allNotes, folders, tags,
                 folderHierarchy, selVars, isSearching, searchVars, navVars, modalVars,
                 mountPending, burst, lastLoaded>>

(***************************************************************************)
(* onMount (lines 79-84): loadFolders and loadTags run together, then the  *)
(* hierarchy is built and the notes are loaded.                            *)
(***************************************************************************)
loadFoldersSettled(ok) ==
  /\ Idle
  /\ \E t \in Pending({"get_folders"}, "onMount") :
       /\ folders' = IF ok THEN folderStore ELSE folders
       /\ IF mountPending = 1
          THEN /\ folderHierarchy' = buildFolderHierarchy(folders')
               /\ isLoading' = TRUE
               /\ tasks' = Done(t) (+) SetToBag({LoadTask(selectedFolderId,
                                                   includeSubfolders, "onMount", 0)})
          ELSE /\ tasks' = Done(t)
               /\ UNCHANGED <<folderHierarchy, isLoading>>
  /\ mountPending' = mountPending - 1
  /\ last' = Step(IF ok THEN "loadFoldersResolved" ELSE "loadFoldersRejected", 0)
  /\ UNCHANGED <<eventVars, backendVars, notes, allNotes, tags, selVars, isSearching, searchVars,
                 navVars, modalVars, resume, burst, lastLoaded>>

loadFoldersResolved == loadFoldersSettled(TRUE)

loadFoldersRejected == loadFoldersSettled(FALSE)

loadTagsSettled(ok) ==
  /\ Idle
  /\ \E t \in Pending({"get_all_note_tags"}, "onMount") :
       /\ tags' = IF ok THEN dbTags ELSE tags
       /\ IF mountPending = 1
          THEN /\ folderHierarchy' = buildFolderHierarchy(folders)
               /\ isLoading' = TRUE
               /\ tasks' = Done(t) (+) SetToBag({LoadTask(selectedFolderId,
                                                   includeSubfolders, "onMount", 0)})
          ELSE /\ tasks' = Done(t)
               /\ UNCHANGED <<folderHierarchy, isLoading>>
  /\ mountPending' = mountPending - 1
  /\ last' = Step(IF ok THEN "loadTagsResolved" ELSE "loadTagsRejected", 0)
  /\ UNCHANGED <<eventVars, backendVars, notes, allNotes, folders, selVars, isSearching,
                 searchVars, navVars, modalVars, resume, burst, lastLoaded>>

loadTagsResolved == loadTagsSettled(TRUE)

loadTagsRejected == loadTagsSettled(FALSE)

onMountAfterReload ==
  /\ resume # <<>>
  /\ resume[1].cont = "onMount"
  /\ isLoading' = FALSE
  /\ resume' = <<>>
  /\ last' = Step("onMountAfterReload", 0)
  /\ UNCHANGED <<eventVars, backendVars, listVars, selVars, isSearching, searchVars, navVars,
                 modalVars, tasks, mountPending, burst, lastLoaded>>

(***************************************************************************)
(* Selection and the editor (lines 283-292, 589-610).                      *)
(***************************************************************************)
selectNote(note) ==
  /\ Idle
  /\ UserEvent
  /\ ListShown
  /\ note \in Range(notes)
  /\ selectedNote' = <<note>>
  /\ isCreatingNew' = FALSE
  /\ last' = Step("selectNote", note.id)
  /\ UNCHANGED <<backendVars, listVars, isLoading, isSearching, searchVars, navVars,
                 modalVars, tasks, resume, mountPending, burst, lastLoaded>>

createNewNote ==
  /\ Idle
  /\ UserEvent
  /\ selectedNote' = <<>>
  /\ isCreatingNew' = TRUE
  /\ last' = Step("createNewNote", 0)
  /\ UNCHANGED <<backendVars, listVars, isLoading, isSearching, searchVars, navVars,
                 modalVars, tasks, resume, mountPending, burst, lastLoaded>>

\* the onCancel callbacks handed to the editor (lines 595 and 604)
onCancel ==
  /\ Idle
  /\ UserEvent
  /\ isCreatingNew \/ selectedNote # <<>>
  /\ IF isCreatingNew
     THEN isCreatingNew' = FALSE /\ UNCHANGED selectedNote
     ELSE selectedNote' = <<>> /\ UNCHANGED isCreatingNew
  /\ last' = Step("onCancel", 0)
  /\ UNCHANGED <<backendVars, listVars, isLoading, isSearching, searchVars, navVars,
                 modalVars, tasks, resume, mountPending, burst, lastLoaded>>

(***************************************************************************)
(* Mutations (lines 295-450).  Each handler invokes its command; when the  *)
(* command resolves it awaits loadNotesBasedOnSelection and then resumes;  *)
(* when the command rejects, the catch block only logs.                    *)
(***************************************************************************)
\* the handler starts its reload: the command t is replaced by the load
reloadAfter(t, cont, cid) ==
  /\ isLoading' = TRUE
  /\ tasks' = Done(t) (+) SetToBag({LoadTask(selectedFolderId, includeSubfolders,
                                            cont, cid)})

\* a catch block that also closes the delete confirmation
rejectedClosesModal(t, op) ==
  /\ Idle
  /\ tasks' = Done(t)
  /\ showDeleteModal' = FALSE
  /\ noteToDelete' = <<>>
  /\ last' = Step(op, t.cid)
  /\ UNCHANGED <<eventVars, backendVars, listVars, selVars, isLoading, isSearching,
                 searchVars, navVars, resume, mountPending, burst, lastLoaded>>

\* a rejected command: the catch block leaves the component as it is
rejected(t, op) ==
  /\ Idle
  /\ tasks' = Done(t)
  /\ last' = Step(op, t.cid)
  /\ UNCHANGED <<eventVars, backendVars, listVars, selVars, isLoading, isSearching, searchVars,
                 navVars, modalVars, resume, mountPending, burst, lastLoaded>>

\* a handler resumed after its reload that only refreshes the selection
resumed(cont, op, sel) ==
  /\ resume # <<>>
  /\ resume[1].cont = cont
  /\ selectedNote' = sel
  /\ resume' = <<>>
  /\ last' = Step(op, resume[1].cid)
  /\ UNCHANGED <<eventVars, backendVars, listVars, isCreatingNew, isLoading, isSearching,
                 searchVars, navVars, modalVars, tasks, mountPending, burst, lastLoaded>>

saveNewNote(noteData) ==
  /\ Idle
  /\ UserEvent
  /\ HasRoom
  /\ isCreatingNew
  /\ tasks' = Issue([cmd |-> "create_note",
                     arg |-> [title |-> noteData.title, content |-> noteData.content,
                              folderId |-> IF noteData.folderId # Null
                                           THEN noteData.folderId ELSE selectedFolderId,
                              tags |-> noteData.tags, isPinned |-> noteData.isPinned],
                     cont |-> "saveNewNote", cid |-> 0])
  /\ last' = Step("saveNewNote", 0)
  /\ UNCHANGED <<backendVars, listVars, selVars, isLoading, isSearching, searchVars,
                 navVars, modalVars, resume, mountPending, burst, lastLoaded>>

saveNewNoteResolved(t) ==
  /\ Idle
  /\ t \in Pending({"create_note"}, "saveNewNote")
  /\ FreeIds(db) # {}
  /\ db' = create_note(db, clock + 1, t.arg)
  /\ clock' = clock + 1
  /\ reloadAfter(t, "saveNewNote", NewId(db))
  /\ last' = Step("saveNewNoteResolved", NewId(db))
  /\ UNCHANGED <<eventVars, listVars, selVars, isSearching, searchVars, navVars, modalVars,
                 resume, mountPending, burst, lastLoaded>>

saveNewNoteRejected(t) ==
  /\ t \in Pending({"create_note"}, "saveNewNote")
  /\ rejected(t, "saveNewNoteRejected")

\* a create handler that never opens the created note
selectCreatedNever(ns, newNoteId, sel) == sel

\* lines 310-314: select the newly created note when the reload holds it
selectCreated(ns, newNoteId, sel) ==
  IF find(ns, newNoteId) # <<>> THEN find(ns, newNoteId) ELSE sel

saveNewNoteAfterReload ==
  /\ resume # <<>>
  /\ resume[1].cont = "saveNewNote"
  /\ selectedNote' = selectCreated(notes, resume[1].cid, selectedNote)
  /\ isCreatingNew' = FALSE
  /\ resume' = <<>>
  /\ last' = Step("saveNewNoteAfterReload", resume[1].cid)
  /\ UNCHANGED <<eventVars, backendVars, listVars, isLoading, isSearching, searchVars, navVars,
                 modalVars, tasks, mountPending, burst, lastLoaded>>

updateNote(noteData) ==
  /\ Idle
  /\ UserEvent
  /\ HasRoom
  /\ ~isCreatingNew
  /\ selectedNote # <<>>
  /\ noteData.id = selectedNote[1].id
  /\ tasks' = Issue([cmd |-> "update_note",
                     arg |-> [id |-> noteData.id, title |-> noteData.title,
                              content |-> noteData.content,
                              folderId |-> noteData.folderId, tags |-> noteData.tags,
                              isPinned |-> noteData.isPinned],
                     cont |-> "updateNote", cid |-> noteData.id])
  /\ last' = Step("updateNote", noteData.id)
  /\ UNCHANGED <<backendVars, listVars, selVars, isLoading, isSearching, searchVars,
                 navVars, modalVars, resume, mountPending, burst, lastLoaded>>

updateNoteResolved(t) ==
  /\ Idle
  /\ t \in Pending({"update_note"}, "updateNote")
  /\ db' = update_note(db, clock + 1, t.arg)
  /\ clock' = clock + 1
  /\ reloadAfter(t, "updateNote", t.cid)
  /\ last' = Step("updateNoteResolved", t.cid)
  /\ UNCHANGED <<eventVars, listVars, selVars, isSearching, searchVars, navVars, modalVars,
                 resume, mountPending, burst, lastLoaded>>

updateNoteRejected(t) ==
  /\ t \in Pending({"update_note"}, "updateNote")
  /\ rejected(t, "updateNoteRejected")

updateNoteAfterReload ==
  /\ resume # <<>>
  /\ resumed("updateNote", "updateNoteAfterReload",
             IF find(notes, resume[1].cid) # <<>>
             THEN find(notes, resume[1].cid) ELSE selectedNote)

confirmDeleteNote(note) ==
  /\ Idle
  /\ UserEvent
  /\ ListShown
  /\ note \in Range(notes)
  /\ noteToDelete' = <<[id |-> note.id,
                        title |-> IF note.title # <<>> THEN note.title
                                  ELSE <<"U", "n", "t", "i", "t", "l", "e", "d">>]>>
  /\ showDeleteModal' = TRUE
  /\ last' = Step("confirmDeleteNote", note.id)
  /\ UNCHANGED <<backendVars, listVars, selVars, isLoading, isSearching, searchVars,
                 navVars, tasks, resume, mountPending, burst, lastLoaded>>

\* the confirm button of the modal
deleteNote ==
  /\ Idle
  /\ UserEvent
  /\ HasRoom
  /\ showDeleteModal
  /\ IF noteToDelete = <<>>
     THEN UNCHANGED tasks
     ELSE tasks' = Issue([cmd |-> "delete_note", arg |-> [id |-> noteToDelete[1].id],
                          cont |-> "deleteNote", cid |-> noteToDelete[1].id])
  /\ last' = Step("deleteNote", IF noteToDelete = <<>> THEN 0 ELSE noteToDelete[1].id)
  /\ UNCHANGED <<backendVars, listVars, selVars, isLoading, isSearching, searchVars,
                 navVars, modalVars, resume, mountPending, burst, lastLoaded>>

\* line 365 reads noteToDelete.id: when noteToDelete has become null meanwhile
\* the read throws into the catch block, before the selection is reset and
\* before the reload
deleteNoteResolved(t) ==
  /\ Idle
  /\ t \in Pending({"delete_note"}, "deleteNote")
  /\ db' = delete_note(db, t.arg.id)
  /\ clock' = clock + 1
  /\ IF noteToDelete = <<>>
     THEN /\ tasks' = Done(t)
          /\ UNCHANGED <<selectedNote, isLoading>>
     ELSE /\ selectedNote' = IF selectedNote # <<>>
                                  /\ selectedNote[1].id = noteToDelete[1].id
                             THEN <<>> ELSE selectedNote
          /\ reloadAfter(t, "deleteNote", t.cid)
  /\ last' = Step("deleteNoteResolved", t.cid)
  /\ UNCHANGED <<eventVars, listVars, isCreatingNew, isSearching, searchVars, navVars,
                 modalVars, resume, mountPending, burst, lastLoaded>>

deleteNoteRejected(t) ==
  /\ t \in Pending({"delete_note"}, "deleteNote")
  /\ rejected(t, "deleteNoteRejected")

deleteNoteAfterReload ==
  /\ resume # <<>>
  /\ resume[1].cont = "deleteNote"
  /\ showDeleteModal' = FALSE
  /\ noteToDelete' = <<>>
  /\ resume' = <<>>
  /\ last' = Step("deleteNoteAfterReload", resume[1].cid)
  /\ UNCHANGED <<eventVars, backendVars, listVars, selVars, isLoading, isSearching, searchVars,
                 navVars, tasks, mountPending, burst, lastLoaded>>

\* a cancel that hides the confirmation and keeps the note it was opened on
cancelKeepsNote ==
  /\ Idle
  /\ UserEvent
  /\ showDeleteModal
  /\ showDeleteModal' = FALSE
  /\ last' = Step("cancelDeleteNote", 0)
  /\ UNCHANGED <<backendVars, listVars, selVars, isLoading, isSearching, searchVars,
                 navVars, noteToDelete, tasks, resume, mountPending, burst, lastLoaded>>

cancelDeleteNote ==
  /\ Idle
  /\ UserEvent
  /\ showDeleteModal
  /\ showDeleteModal' = FALSE
  /\ noteToDelete' = <<>>
  /\ last' = Step("cancelDeleteNote", 0)
  /\ UNCHANGED <<backendVars, listVars, selVars, isLoading, isSearching, searchVars,
                 navVars, tasks, resume, mountPending, burst, lastLoaded>>

toggleNotePin(note) ==
  /\ Idle
  /\ UserEvent
  /\ HasRoom
  /\ ListShown
  /\ note \in Range(notes)
  /\ tasks' = Issue([cmd |-> "toggle_note_pin", arg |-> [id |-> note.id],
                     cont |-> "toggleNotePin", cid |-> note.id])
  /\ last' = Step("toggleNotePin", note.id)
  /\ UNCHANGED <<backendVars, listVars, selVars, isLoading, isSearching, searchVars,
                 navVars, modalVars, resume, mountPending, burst, lastLoaded>>

toggleNotePinResolved(t) ==
  /\ Idle
  /\ t \in Pending({"toggle_note_pin"}, "toggleNotePin")
  /\ db' = toggle_note_pin(db, t.arg.id)
  /\ clock' = clock + 1
  /\ reloadAfter(t, "toggleNotePin", t.cid)
  /\ last' = Step("toggleNotePinResolved", t.cid)
  /\ UNCHANGED <<eventVars, listVars, selVars, isSearching, searchVars, navVars, modalVars,
                 resume, mountPending, burst, lastLoaded>>

toggleNotePinRejected(t) ==
  /\ t \in Pending({"toggle_note_pin"}, "toggleNotePin")
  /\ rejected(t, "toggleNotePinRejected")

\* lines 398-404 and 440-446: refresh the selection when it is the note acted on
refreshIfSelected(cid) ==
  IF selectedNote # <<>> /\ selectedNote[1].id = cid /\ find(notes, cid) # <<>>
  THEN find(notes, cid) ELSE selectedNote

toggleNotePinAfterReload ==
  /\ resume # <<>>
  /\ resumed("toggleNotePin", "toggleNotePinAfterReload", refreshIfSelected(resume[1].cid))

moveNoteToFolder(note, folderId) ==
  /\ Idle
  /\ UserEvent
  /\ HasRoom
  /\ ListShown
  /\ note \in Range(notes)
  /\ folderId \in EditorFolderIds
  /\ tasks' = Issue([cmd |-> "update_note",
                     arg |-> [id |-> note.id, title |-> note.title,
                              content |-> note.content, folderId |-> folderId,
                              tags |-> note.tags, isPinned |-> note.is_pinned],
                     cont |-> "moveNoteToFolder", cid |-> note.id])
  /\ last' = Step("moveNoteToFolder", note.id)
  /\ UNCHANGED <<backendVars, listVars, selVars, isLoading, isSearching, searchVars,
                 navVars, modalVars, resume, mountPending, burst, lastLoaded>>

moveNoteToFolderResolved(t) ==
  /\ Idle
  /\ t \in Pending({"update_note"}, "moveNoteToFolder")
  /\ db' = update_note(db, clock + 1, t.arg)
  /\ clock' = clock + 1
  /\ reloadAfter(t, "moveNoteToFolder", t.cid)
  /\ last' = Step("moveNoteToFolderResolved", t.cid)
  /\ UNCHANGED <<eventVars, listVars, selVars, isSearching, searchVars, navVars, modalVars,
                 resume, mountPending, burst, lastLoaded>>

moveNoteToFolderRejected(t) ==
  /\ t \in Pending({"update_note"}, "moveNoteToFolder")
  /\ rejected(t, "moveNoteToFolderRejected")

moveNoteToFolderAfterReload ==
  /\ resume # <<>>
  /\ resumed("moveNoteToFolder", "moveNoteToFolderAfterReload",
             refreshIfSelected(resume[1].cid))

(***************************************************************************)
(* The component: every handler and every response.                        *)
(***************************************************************************)
NewNoteData ==
  [title : EditorTitles, content : {<<>>}, folderId : EditorFolderIds,
   tags : {<<>>}, isPinned : {FALSE}]

\* what the editor of the selected note may hand to onSave: its form keeps the
\* pin flag it was opened with unless the user toggles it, so either flag
EditedNoteData ==
  IF selectedNote = <<>> THEN {}
  ELSE [id : {selectedNote[1].id}, title : EditorTitles \cup {selectedNote[1].title},
        content : {selectedNote[1].content}, folderId : EditorFolderIds,
        tags : {selectedNote[1].tags}, isPinned : BOOLEAN]

MountNext ==
  \/ loadFoldersResolved
  \/ loadFoldersRejected
  \/ loadTagsResolved
  \/ loadTagsRejected
  \/ onMountAfterReload

UseNext ==
  \/ \E v \in QueryTexts : handleSearchInput(v)
  \/ \E id \in timers : performSearch(id)
  \/ \E t \in BagToSet(tasks) : performSearchResolved(t)
  \/ \E t \in BagToSet(tasks) : performSearchRejected(t)
  \/ clearSearch
  \/ \E e \in Range(folderHierarchy) : selectFolder(e)
  \/ toggleIncludeSubfolders
  \/ \E t \in BagToSet(tasks) : loadNotesResolved(t)
  \/ \E t \in BagToSet(tasks) : loadNotesRejected(t)
  \/ \E note \in Range(notes) : selectNote(note)
  \/ createNewNote
  \/ onCancel
  \/ \E noteData \in NewNoteData : saveNewNote(noteData)
  \/ \E t \in BagToSet(tasks) : saveNewNoteResolved(t)
  \/ \E t \in BagToSet(tasks) : saveNewNoteRejected(t)
  \/ saveNewNoteAfterReload
  \/ \E noteData \in EditedNoteData : updateNote(noteData)
  \/ \E t \in BagToSet(tasks) : updateNoteResolved(t)
  \/ \E t \in BagToSet(tasks) : updateNoteRejected(t)
  \/ updateNoteAfterReload
  \/ \E note \in Range(notes) : confirmDeleteNote(note)
  \/ deleteNote
  \/ \E t \in BagToSet(tasks) : deleteNoteResolved(t)
  \/ \E t \in BagToSet(tasks) : deleteNoteRejected(t)
  \/ deleteNoteAfterReload
  \/ cancelDeleteNote
  \/ \E note \in Range(notes) : toggleNotePin(note)
  \/ \E t \in BagToSet(tasks) : toggleNotePinResolved(t)
  \/ \E t \in BagToSet(tasks) : toggleNotePinRejected(t)
  \/ toggleNotePinAfterReload
  \/ \E note \in Range(notes), folderId \in EditorFolderIds :
       moveNoteToFolder(note, folderId)
  \/ \E t \in BagToSet(tasks) : moveNoteToFolderResolved(t)
  \/ \E t \in BagToSet(tasks) : moveNoteToFolderRejected(t)
  \/ moveNoteToFolderAfterReload

Next == MountNext \/ UseNext

\* the component from its construction on
Spec == Init /\ [][Next]_vars

(***************************************************************************)
(* The component once it has mounted with every load resolved, the user    *)
(* having opened a note, the delete confirmation, both or neither.         *)
(***************************************************************************)
MountedNotes == prepareNotesWithTagColors(get_notes(InitialDb), dbTags)

InitOpened ==
  /\ db = InitialDb
  /\ clock = 1
  /\ notes = MountedNotes
  /\ allNotes = <<>>
  /\ folders = dbFolders
  /\ tags = dbTags
  /\ folderHierarchy = buildFolderHierarchy(dbFolders)
  /\ selectedNote \in {<<>>} \cup {<<n>> : n \in Range(MountedNotes)}
  /\ isCreatingNew = FALSE
  /\ isLoading = FALSE
  /\ isSearching = FALSE
  /\ searchQuery = <<>>
  /\ searchTimeout = Null
  /\ selectedFolderId = Null
  /\ includeSubfolders = TRUE
  /\ \/ showDeleteModal = FALSE /\ noteToDelete = <<>>
     \/ /\ showDeleteModal = TRUE
        /\ noteToDelete \in {<<[id |-> n.id, title |-> n.title]>> : n \in Range(MountedNotes)}
  /\ timers = {}
  /\ nextTimer = 1
  /\ tasks = EmptyBag
  /\ resume = <<>>
  /\ mountPending = 0
  /\ last = Step("opened", 0)
  /\ burst = [n |-> 0, typed |-> <<>>, pure |-> TRUE, issued |-> <<>>]
  /\ lastLoaded = MountedNotes
  /\ events = 0
  /\ clearView = "none"
  /\ rendered = <<>>
  /\ AsideAtRest

SpecOpened == InitOpened /\ [][UseNext]_vars

(***************************************************************************)
(* The list of the mounted component rendering a collection the            *)
(* collaborator may hold: template line 565 gives NotesList the notes in   *)
(* the order of sortNotes.                                                 *)
(***************************************************************************)
\* the mounted component at rest, but for the collections named below
AtRest ==
  /\ allNotes = <<>>
  /\ tags = dbTags
  /\ selectedNote = <<>>
  /\ isCreatingNew = FALSE
  /\ isLoading = FALSE
  /\ isSearching = FALSE
  /\ searchQuery = <<>>
  /\ searchTimeout = Null
  /\ selectedFolderId = Null
  /\ includeSubfolders = TRUE
  /\ showDeleteModal = FALSE
  /\ noteToDelete = <<>>
  /\ timers = {}
  /\ nextTimer = 1
  /\ tasks = EmptyBag
  /\ resume = <<>>
  /\ mountPending = 0
  /\ burst = [n |-> 0, typed |-> <<>>, pure |-> TRUE, issued |-> <<>>]
  /\ events = 0
  /\ clearView = "none"

\* a loaded note: its position in the loaded collection is its id
LoadedNote(k, pinned, time) ==
  [id |-> k, title |-> <<>>, content |-> <<>>, folder_id |-> Null, is_pinned |-> pinned,
   updated_at |-> time, tags |-> <<>>, tag_colors |-> {}]

\* the collections of 1 to MaxSortLen notes, every pin flag and every time
SortInputs ==
  UNION {{[k \in 1..n |-> LoadedNote(k, p[k], u[k])] :
            p \in [1..n -> BOOLEAN], u \in [1..n -> 1..MaxTime]} : n \in 1..MaxSortLen}

InitSort ==
  /\ AtRest
  /\ db = InitialDb
  /\ clock = 1
  /\ notes \in SortInputs
  /\ lastLoaded = notes
  /\ folders = dbFolders
  /\ folderHierarchy = buildFolderHierarchy(dbFolders)
  /\ rendered = <<>>
  /\ AsideAtRest
  /\ last = Step("loaded", 0)

\* the list branch of the template (lines 563-572)
render ==
  /\ ListShown
  /\ rendered' = sortNotes(notes)
  /\ last' = Step("render", 0)
  /\ UNCHANGED <<events, clearView, asideVars, backendVars, listVars, selVars, isLoading,
                 isSearching, searchVars, navVars, modalVars, tasks, resume, mountPending,
                 burst, lastLoaded>>

SpecSort == InitSort /\ [][render]_vars

(***************************************************************************)
(* The mounted component over a store of three unpinned notes whose        *)
(* updated_at are 1 < 2 < 3, with the rendering of its list.               *)
(***************************************************************************)
ThreeNotes ==
  [k \in 1..3 |->
     [st |-> "live", title |-> <<"n">>, content |-> <<>>, folder_id |-> Null,
      is_pinned |-> FALSE, updated_at |-> k, tags |-> <<>>]]

ThreeNotesDb == [i \in NoteIds |-> IF i <= Len(ThreeNotes) THEN ThreeNotes[i] ELSE NoNote]

InitPin ==
  /\ AtRest
  /\ db = ThreeNotesDb
  /\ clock = Len(ThreeNotes) + 1
  /\ notes = prepareNotesWithTagColors(get_notes(ThreeNotesDb), dbTags)
  /\ lastLoaded = notes
  /\ folders = dbFolders
  /\ folderHierarchy = buildFolderHierarchy(dbFolders)
  /\ rendered = <<>>
  /\ AsideAtRest
  /\ last = Step("loaded", 0)

SpecPin == InitPin /\ [][UseNext \/ render]_vars

(***************************************************************************)
(* The mounted component after the folder modal has changed the folders:   *)
(* handleFoldersUpdated (lines 414-419) has reloaded the folder list, and  *)
(* its continuation builds the hierarchy and reloads the notes.            *)
(***************************************************************************)
\* the lists of up to MaxFolders folders with distinct ids, in any order, the
\* parent of each being null or any id (a missing folder, the folder itself
\* and cycles included)
FolderLists ==
  UNION {{[k \in 1..n |-> [id |-> ids[k], name |-> "F", parent_id |-> ps[k]]] :
            ids \in {f \in [1..n -> 1..MaxFolders] :
                       \A i, j \in 1..n : f[i] = f[j] => i = j},
            ps \in [1..n -> {Null} \cup (1..MaxFolders)]} : n \in 0..MaxFolders}

InitFolders ==
  /\ AtRest
  /\ db = InitialDb
  /\ clock = 1
  /\ notes = MountedNotes
  /\ lastLoaded = MountedNotes
  /\ folders \in FolderLists
  /\ folderHierarchy = buildFolderHierarchy(dbFolders)
  /\ rendered = <<>>
  /\ AsideAtRest
  /\ last = Step("loadFolders", 0)

\* the continuation of handleFoldersUpdated (lines 416-417)
handleFoldersUpdated ==
  /\ last = Step("loadFolders", 0)
  /\ folderHierarchy' = buildFolderHierarchy(folders)
  /\ isLoading' = TRUE
  /\ tasks' = Issue(LoadTask(selectedFolderId, includeSubfolders, "none", 0))
  /\ last' = Step("handleFoldersUpdated", 0)
  /\ UNCHANGED <<eventVars, backendVars, notes, allNotes, folders, tags, selVars,
                 isSearching, searchVars, navVars, modalVars, resume, mountPending,
                 burst, lastLoaded>>

SpecFolders == InitFolders /\ [][handleFoldersUpdated]_vars

(***************************************************************************)
(* NoteEditor (NoteEditor.svelte) under the mounted component: the editor  *)
(* of a saved note exists while a note is selected and no new note is      *)
(* being created (template lines 597-605); it keeps its own form state.    *)
(***************************************************************************)
\* the form state taken from a note (NoteEditor.svelte lines 13-22, 27-34)
formOf(note) ==
  [currentNoteId |-> note.id, title |-> note.title, content |-> note.content,
   folderId |-> note.folder_id, isPinned |-> note.is_pinned, selectedTags |-> note.tags]

EditorShown == ~isCreatingNew /\ selectedNote # <<>>

\* the form state once the editor has been created, destroyed or has run its
\* effect: the effect resets the form only when the id of the note differs
\* from currentNoteId (NoteEditor.svelte lines 25-36)
editorAfter ==
  IF ~EditorShown THEN <<>>
  ELSE IF editor = <<>> THEN <<formOf(selectedNote[1])>>
  ELSE IF selectedNote[1].id # editor[1].currentNoteId THEN <<formOf(selectedNote[1])>>
  ELSE editor

EditorSynced == editor = editorAfter

\* the rendering of the content pane after a change of the selection
NoteEditor ==
  /\ ~EditorSynced
  /\ editor' = editorAfter
  /\ last' = Step("NoteEditor", 0)
  /\ UNCHANGED <<events, clearView, rendered, tagStore, contrastVars, habitVars, managerVars,
                 backendVars, listVars, selVars, isLoading, isSearching, searchVars, navVars,
                 modalVars, tasks, resume, mountPending, burst, lastLoaded>>

Untitled == <<"U", "n", "t", "i", "t", "l", "e", "d">>

\* the noteData of saveNote (NoteEditor.svelte lines 48-61)
saveNoteData ==
  [id |-> selectedNote[1].id,
   title |-> IF trim(editor[1].title) # <<>> THEN trim(editor[1].title) ELSE Untitled,
   content |-> editor[1].content, folderId |-> editor[1].folderId,
   tags |-> editor[1].selectedTags, isPinned |-> editor[1].isPinned]

\* the save button of the editor: onSave is updateNote
saveNote ==
  /\ editor # <<>>
  /\ EditorShown
  /\ updateNote(saveNoteData)

\* the rendering runs before the next event or response is handled
EditorNext ==
  \/ NoteEditor
  \/ EditorSynced /\ \E note \in Range(notes) : selectNote(note)
  \/ EditorSynced /\ onCancel
  \/ EditorSynced /\ saveNote
  \/ EditorSynced /\ \E t \in BagToSet(tasks) : updateNoteResolved(t)
  \/ EditorSynced /\ \E t \in BagToSet(tasks) : updateNoteRejected(t)
  \/ EditorSynced /\ updateNoteAfterReload
  \/ EditorSynced /\ \E note \in Range(notes) : toggleNotePin(note)
  \/ EditorSynced /\ \E t \in BagToSet(tasks) : toggleNotePinResolved(t)
  \/ EditorSynced /\ \E t \in BagToSet(tasks) : toggleNotePinRejected(t)
  \/ EditorSynced /\ toggleNotePinAfterReload
  \/ EditorSynced /\ \E note \in Range(notes), folderId \in EditorFolderIds :
                       moveNoteToFolder(note, folderId)
  \/ EditorSynced /\ \E t \in BagToSet(tasks) : moveNoteToFolderResolved(t)
  \/ EditorSynced /\ \E t \in BagToSet(tasks) : moveNoteToFolderRejected(t)
  \/ EditorSynced /\ moveNoteToFolderAfterReload
  \/ EditorSynced /\ \E t \in BagToSet(tasks) : loadNotesResolved(t)
  \/ EditorSynced /\ \E t \in BagToSet(tasks) : loadNotesRejected(t)

SpecEditor == InitOpened /\ [][EditorNext]_vars

(***************************************************************************)
(* The tag manager (lines 477-479, 780-782): once TagModal has changed the *)
(* tags the collaborator holds it calls onTagsUpdated, and                 *)
(* handleTagsUpdated reloads the tags and then the notes.                  *)
(***************************************************************************)
\* what one edit in the tag manager may leave: the tag recolored, without a
\* color, deleted, or joined by a second tag
TagLists ==
  { << [id |-> 1, name |-> "t", color |-> "#00ff00"] >>,
    << [id |-> 1, name |-> "t", color |-> ""] >>,
    << >>,
    dbTags \o << [id |-> 2, name |-> "u", color |-> "#0000ff"] >> }

\* a tag reload that keeps the list held before
tagsKeptAfterReload(held, loaded) == held

\* tags = await invoke("get_all_note_tags") (lines 139-140)
tagsAfterReload(held, loaded) == loaded

\* the tag manager has edited the tags and calls onTagsUpdated
handleTagsUpdated(edited) ==
  /\ Idle
  /\ events < MaxEvents
  /\ events' = events + 1
  /\ clearView' = "none"
  /\ HasRoom
  /\ tagStore = dbTags
  /\ edited \in TagLists
  /\ tagStore' = edited
  /\ tasks' = Issue([cmd |-> "get_all_note_tags", arg |-> [x |-> 0],
                     cont |-> "handleTagsUpdated", cid |-> 0])
  /\ last' = Step("handleTagsUpdated", 0)
  /\ UNCHANGED <<rendered, editor, contrastVars, habitVars, managerVars, backendVars,
                 listVars, selVars,
                 isLoading, isSearching, searchVars, navVars, modalVars, resume,
                 mountPending, burst, lastLoaded>>

\* loadTags has settled (lines 137-145, a failure is caught there) and the
\* then callback reloads the notes; the cid of the reload records whether
\* the tags were reloaded (1) or not (0)
handleTagsUpdatedTagsSettled(t, ok) ==
  /\ Idle
  /\ t \in Pending({"get_all_note_tags"}, "handleTagsUpdated")
  /\ tags' = IF ok THEN tagsAfterReload(tags, tagStore) ELSE tags
  /\ isLoading' = TRUE
  /\ tasks' = Done(t) (+) SetToBag({LoadTask(selectedFolderId, includeSubfolders,
                                            "handleTagsUpdated", IF ok THEN 1 ELSE 0)})
  /\ last' = Step(IF ok THEN "handleTagsUpdatedTagsResolved"
                  ELSE "handleTagsUpdatedTagsRejected", 0)
  /\ UNCHANGED <<eventVars, backendVars, notes, allNotes, folders, folderHierarchy, selVars,
                 isSearching, searchVars, navVars, modalVars, resume, mountPending, burst,
                 lastLoaded>>

handleTagsUpdatedTagsResolved(t) == handleTagsUpdatedTagsSettled(t, TRUE)

handleTagsUpdatedTagsRejected(t) == handleTagsUpdatedTagsSettled(t, FALSE)

\* the promise of handleTagsUpdated settles: nothing is left to do
handleTagsUpdatedAfterReload ==
  /\ resume # <<>>
  /\ resume[1].cont = "handleTagsUpdated"
  /\ resume' = <<>>
  /\ last' = Step("handleTagsUpdatedAfterReload", 0)
  /\ UNCHANGED <<eventVars, backendVars, listVars, selVars, isLoading, isSearching,
                 searchVars, navVars, modalVars, tasks, mountPending, burst, lastLoaded>>

TagsNext ==
  \/ \E edited \in TagLists : handleTagsUpdated(edited)
  \/ \E t \in BagToSet(tasks) : handleTagsUpdatedTagsResolved(t)
  \/ \E t \in BagToSet(tasks) : handleTagsUpdatedTagsRejected(t)
  \/ handleTagsUpdatedAfterReload
  \/ \E v \in QueryTexts : handleSearchInput(v)
  \/ \E id \in timers : performSearch(id)
  \/ \E t \in BagToSet(tasks) : performSearchResolved(t)
  \/ \E t \in BagToSet(tasks) : performSearchRejected(t)
  \/ clearSearch
  \/ \E e \in Range(folderHierarchy) : selectFolder(e)
  \/ \E t \in BagToSet(tasks) : loadNotesResolved(t)
  \/ \E t \in BagToSet(tasks) : loadNotesRejected(t)

SpecTags == InitOpened /\ [][TagsNext]_vars

(***************************************************************************)
(* NotesList (NotesList.svelte): the text color of a tag or folder badge   *)
(* is computed from its background color (lines 64-131).                   *)
(***************************************************************************)
HexDigits ==
  << "0", "1", "2", "3", "4", "5", "6", "7", "8", "9", "a", "b", "c", "d", "e", "f" >>

UpperHexDigits ==
  << "0", "1", "2", "3", "4", "5", "6", "7", "8", "9", "A", "B", "C", "D", "E", "F" >>

NaN == -1

\* the value of a character as a digit of base 16, NaN when it is none
digit16(ch) ==
  LET idx == {k \in 1..16 : HexDigits[k] = ch \/ UpperHexDigits[k] = ch}
  IN IF idx = {} THEN NaN ELSE (CHOOSE k \in idx : TRUE) - 1

\* parseInt(text, 16) of a text of two characters: the digits before the
\* first character that is no digit, NaN when the first is none
parseInt16(text) ==
  IF digit16(text[1]) = NaN THEN NaN
  ELSE IF digit16(text[2]) = NaN THEN digit16(text[1])
  ELSE 16 * digit16(text[1]) + digit16(text[2])

\* a luminance that weighs the three channels alike
yiqUnweighted(r, g, b) == 1000 * ((r + g + b) \div 3)

\* 1000 times the YIQ luminance of line 125: the quotient by 1000 is at
\* least 128 exactly when this integer is at least 128000
yiqTimes1000(r, g, b) == r * 299 + g * 587 + b * 114

\* getContrastTextColor (lines 100-131); a comparison with NaN is false
getContrastTextColor(hex) ==
  IF hex = <<>> \/ hex[1] # "#" THEN "inherit"
  ELSE IF Len(hex) \notin {4, 7} THEN "inherit"
  ELSE LET r == IF Len(hex) = 4 THEN parseInt16(<<hex[2], hex[2]>>)
                ELSE parseInt16(<<hex[2], hex[3]>>)
           g == IF Len(hex) = 4 THEN parseInt16(<<hex[3], hex[3]>>)
                ELSE parseInt16(<<hex[4], hex[5]>>)
           b == IF Len(hex) = 4 THEN parseInt16(<<hex[4], hex[4]>>)
                ELSE parseInt16(<<hex[6], hex[7]>>)
       IN IF r # NaN /\ g # NaN /\ b # NaN /\ yiqTimes1000(r, g, b) >= 128000
          THEN "#000000" ELSE "#ffffff"

\* the channels and digits the colors are made of
ChannelTexts ==
  { <<"0", "0">>, <<"3", "b">>, <<"7", "F">>, <<"8", "0">>, <<"8", "2">>, <<"f", "6">>,
    <<"f", "f">> }

ShortDigits == {"0", "3", "7", "8", "f"}

\* six digits, three digits, and texts that are no colors
ContrastInputs ==
  {<<"#">> \o r \o g \o b : r, g, b \in ChannelTexts}
    \cup {<<"#", r, g, b>> : r, g, b \in ShortDigits}
    \cup { <<>>, <<"#">>, <<"#", "f", "f">>, <<"#", "f", "f", "f", "f">>,
           <<"#", "f", "f", "f", "f", "f", "f", "f">>, <<"f", "f", "f", "f", "f", "f", "f">>,
           <<"f", "f", "f", "f">>,
           <<"n", "o", "t", "-", "a", "-", "c", "o", "l", "o", "r">>,
           <<"#", "z", "z", "z", "z", "z", "z">>, <<"#", "f", "f", "f", "f", "z", "z">> }

\* the notes organizer mounted and at rest, no editor open
OrganizerAtRest ==
  /\ AtRest
  /\ db = InitialDb
  /\ clock = 1
  /\ notes = MountedNotes
  /\ lastLoaded = MountedNotes
  /\ folders = dbFolders
  /\ folderHierarchy = buildFolderHierarchy(dbFolders)
  /\ rendered = <<>>
  /\ editor = <<>>

InitContrast ==
  /\ OrganizerAtRest
  /\ tagStore = dbTags
  /\ hexColor \in ContrastInputs
  /\ textColor = ""
  /\ HabitAtRest
  /\ ManagersAtRest
  /\ last = Step("loaded", 0)

\* getTagStyle and getFolderStyle (lines 68-97) ask for the text color of
\* the badge they style
styleBadge ==
  /\ textColor = ""
  /\ textColor' = getContrastTextColor(hexColor)
  /\ last' = Step("styleBadge", 0)
  /\ UNCHANGED <<events, clearView, rendered, editor, tagStore, hexColor, habitVars,
                 managerVars, backendVars, listVars, selVars, isLoading, isSearching,
                 searchVars, navVars,
                 modalVars, tasks, resume, mountPending, burst, lastLoaded>>

SpecContrast == InitContrast /\ [][styleBadge]_vars

(***************************************************************************)
(* HabitTracking (HabitTracking.svelte): the form that creates a habit.    *)
(* A frequency is an object with one key, the variant.                     *)
(***************************************************************************)
MaxHabits == 1

\* the notes organizer, but for its commands in flight and its last step
organizerVars ==
  <<events, clearView, rendered, editor, tagStore, contrastVars, managerVars, backendVars,
    listVars, selVars, isLoading, isSearching, searchVars, navVars, modalVars, resume, mountPending,
    burst, lastLoaded>>

\* daysOfWeek (lines 39-47): the name of the day with id k
daysOfWeek ==
  << <<"M", "o", "n", "d", "a", "y">>, <<"T", "u", "e", "s", "d", "a", "y">>,
     <<"W", "e", "d", "n", "e", "s", "d", "a", "y">>, <<"T", "h", "u", "r", "s", "d", "a", "y">>,
     <<"F", "r", "i", "d", "a", "y">>, <<"S", "a", "t", "u", "r", "d", "a", "y">>,
     <<"S", "u", "n", "d", "a", "y">> >>

\* a sequence of characters as one text
RECURSIVE textOf(_)
textOf(chars) == IF chars = <<>> THEN "" ELSE chars[1] \o textOf(Tail(chars))

\* texts.join(sep)
RECURSIVE join(_, _)
join(texts, sep) ==
  IF texts = <<>> THEN ""
  ELSE IF Len(texts) = 1 THEN texts[1]
  ELSE texts[1] \o sep \o join(Tail(texts), sep)

\* numbers.sort((a, b) => a - b)
RECURSIVE sortAscending(_)
sortAscending(xs) ==
  IF xs = <<>> THEN <<>>
  ELSE LET rest == sortAscending(Tail(xs))
           before == SelectSeq(rest, LAMBDA y : y <= xs[1])
           after == SelectSeq(rest, LAMBDA y : y > xs[1])
       IN before \o <<xs[1]>> \o after

\* a toggle that appends the day without sorting
toggledUnsorted(days, day) ==
  IF day \in Range(days) THEN SelectSeq(days, LAMBDA d : d # day)
  ELSE Append(days, day)

\* toggleDay (lines 114-120): the day array after a click on a day
toggled(days, day) ==
  IF day \in Range(days) THEN SelectSeq(days, LAMBDA d : d # day)
  ELSE sortAscending(Append(days, day))

\* the weekday default of an empty weekly selection (lines 130-133)
weeklyDays(days) == IF Len(days) > 0 THEN days ELSE <<1, 2, 3, 4, 5>>

\* an encoding that keeps a missing or zero interval
intervalAsGiven(interval) == IF interval = <<>> THEN 0 ELSE interval[1]

\* habitFrequencyInterval || 1 (line 145): <<>> is the value of an empty input
intervalDays(interval) == IF interval = <<>> \/ interval[1] = 0 THEN 1 ELSE interval[1]

\* getFrequencyData (lines 123-157)
getFrequencyData(type, days, interval, pattern) ==
  CASE type = "daily" -> [Daily |-> <<>>]
    [] type = "weekly" -> [Weekly |-> [days |-> weeklyDays(days)]]
    [] type = "monthly" -> [Monthly |-> [days |-> days]]
    [] type = "interval" -> [Interval |-> [days |-> intervalDays(interval)]]
    [] type = "custom" -> [Custom |-> [pattern |-> pattern]]
    [] OTHER -> [Daily |-> <<>>]

\* the plural "s" of lines 289 and 292
plural(n) == IF n > 1 THEN "s" ELSE ""

\* the name a day of a weekly frequency is shown by (lines 281-284)
dayName(day) ==
  IF day \in 1..Len(daysOfWeek) THEN textOf(SubSeq(daysOfWeek[day], 1, 3)) ELSE ToString(day)

\* getFrequencyDisplay (lines 271-299; ViewHabits.svelte lines 36-64 is the
\* same function) of a frequency object
getFrequencyDisplay(f) ==
  IF "Daily" \in DOMAIN f THEN "Daily"
  ELSE IF "Weekly" \in DOMAIN f
  THEN LET days == f.Weekly.days
       IN IF Len(days) = 7 THEN "Every day"
          ELSE "Weekly: " \o join([k \in 1..Len(days) |-> dayName(days[k])], ", ")
  ELSE IF "Monthly" \in DOMAIN f
  THEN LET days == f.Monthly.days
       IN "Monthly on day" \o plural(Len(days)) \o ": "
            \o join([k \in 1..Len(days) |-> ToString(days[k])], ", ")
  ELSE IF "Interval" \in DOMAIN f
  THEN LET interval == IF f.Interval.days = 0 THEN 1 ELSE f.Interval.days
       IN "Every " \o ToString(interval) \o " day" \o plural(interval)
  ELSE IF "Custom" \in DOMAIN f THEN "Custom: " \o f.Custom.pattern
  ELSE "Unknown"

(***************************************************************************)
(* The encoding of the form and the display of what it encodes, for every  *)
(* form state of the bounded domains.                                      *)
(***************************************************************************)
FrequencyTypes == {"daily", "weekly", "monthly", "interval", "custom"}

\* the days of a set in ascending order, as toggleDay keeps them
RECURSIVE ascending(_)
ascending(S) ==
  IF S = {} THEN <<>>
  ELSE LET m == CHOOSE x \in S : \A y \in S : x <= y
       IN <<m>> \o ascending(S \ {m})

\* the selections of the weekly picker, and selections holding days that
\* only the monthly picker offers
DaySelections == {ascending(S) : S \in (SUBSET (1..7)) \cup (SUBSET {1, 2, 3, 4, 5, 6, 15, 31})}

InitFrequency ==
  /\ OrganizerAtRest
  /\ tagStore = dbTags
  /\ hexColor = <<>>
  /\ textColor = ""
  /\ habitName = <<>>
  /\ habitFrequencyType \in FrequencyTypes \cup {"yearly"}
  /\ habitFrequencyDays \in DaySelections
  /\ habitFrequencyInterval \in {<<>>, <<0>>, <<1>>, <<2>>}
  /\ habitFrequencyCustomPattern \in {"", "p"}
  /\ habits = <<>>
  /\ habitsLoading = FALSE
  /\ statusMessage = <<>>
  /\ isSuccess = FALSE
  /\ resetTimers = 0
  /\ habitStore = <<>>
  /\ frequency = <<>>
  /\ display = ""
  /\ ManagersAtRest
  /\ last = Step("mounted", 0)

\* the form is encoded (line 185)
encode ==
  /\ frequency = <<>>
  /\ frequency' = << getFrequencyData(habitFrequencyType, habitFrequencyDays,
                                      habitFrequencyInterval, habitFrequencyCustomPattern) >>
  /\ last' = Step("getFrequencyData", 0)
  /\ UNCHANGED <<organizerVars, tasks, habitFormVars, habits, habitsLoading, statusMessage,
                 isSuccess, resetTimers, habitStore, display>>

\* the encoded frequency is displayed (line 783)
decode ==
  /\ frequency # <<>>
  /\ display = ""
  /\ display' = getFrequencyDisplay(frequency[1])
  /\ last' = Step("getFrequencyDisplay", 0)
  /\ UNCHANGED <<organizerVars, tasks, habitFormVars, habits, habitsLoading, statusMessage,
                 isSuccess, resetTimers, habitStore, frequency>>

SpecFrequency == InitFrequency /\ [][encode \/ decode]_vars

(***************************************************************************)
(* The habit form in use: the inputs are enabled while isLoading is false  *)
(* (lines 334-722).                                                        *)
(***************************************************************************)
HabitNames == {<<>>, <<" ">>, <<"h">>}

\* the days the user clicks: Monday, and the 15th that only the monthly
\* picker offers
ClickedDays == {1, 15}

\* bind:value of the name input (lines 341-348)
inputHabitName(v) ==
  /\ ~habitsLoading
  /\ habitName' = v
  /\ last' = Step("inputHabitName", 0)
  /\ UNCHANGED <<organizerVars, tasks, habitFrequencyType, habitFrequencyDays,
                 habitFrequencyInterval, habitFrequencyCustomPattern, habits, habitsLoading,
                 statusMessage, isSuccess, resetTimers, habitStore, frequency, display>>

\* bind:group of the radio buttons (lines 459-510): nothing else is reset
selectFrequencyType(type) ==
  /\ ~habitsLoading
  /\ type \in FrequencyTypes
  /\ habitFrequencyType' = type
  /\ last' = Step("selectFrequencyType", 0)
  /\ UNCHANGED <<organizerVars, tasks, habitName, habitFrequencyDays,
                 habitFrequencyInterval, habitFrequencyCustomPattern, habits, habitsLoading,
                 statusMessage, isSuccess, resetTimers, habitStore, frequency, display>>

\* a day button of the weekly picker (days 1 to 7, lines 513-536) or of the
\* monthly picker (days 1 to 31, lines 537-560): both call toggleDay on the
\* one array habitFrequencyDays
toggleDay(day) ==
  /\ ~habitsLoading
  /\ \/ habitFrequencyType = "weekly" /\ day \in 1..7
     \/ habitFrequencyType = "monthly" /\ day \in 1..31
  /\ habitFrequencyDays' = toggled(habitFrequencyDays, day)
  /\ last' = Step("toggleDay", day)
  /\ UNCHANGED <<organizerVars, tasks, habitName, habitFrequencyType,
                 habitFrequencyInterval, habitFrequencyCustomPattern, habits, habitsLoading,
                 statusMessage, isSuccess, resetTimers, habitStore, frequency, display>>

\* bind:value of the number input (lines 561-574); <<>> is the emptied input
inputInterval(v) ==
  /\ ~habitsLoading
  /\ habitFrequencyType = "interval"
  /\ habitFrequencyInterval' = v
  /\ last' = Step("inputInterval", 0)
  /\ UNCHANGED <<organizerVars, tasks, habitName, habitFrequencyType, habitFrequencyDays,
                 habitFrequencyCustomPattern, habits, habitsLoading,
                 statusMessage, isSuccess, resetTimers, habitStore, frequency, display>>

\* bind:value of the pattern input (lines 575-587)
inputCustomPattern(v) ==
  /\ ~habitsLoading
  /\ habitFrequencyType = "custom"
  /\ habitFrequencyCustomPattern' = v
  /\ last' = Step("inputCustomPattern", 0)
  /\ UNCHANGED <<organizerVars, tasks, habitName, habitFrequencyType, habitFrequencyDays,
                 habitFrequencyInterval, habits, habitsLoading,
                 statusMessage, isSuccess, resetTimers, habitStore, frequency, display>>

\* the checks of lines 169-179
daysMissing(type, days) == type \in {"weekly", "monthly"} /\ Len(days) = 0

\* a form that takes any name
nameMissingNever(name) == FALSE

\* !habitName.trim() (line 163)
nameMissing(name) == trim(name) = <<>>

\* handleAddHabit up to its first await (lines 160-213)
handleAddHabit ==
  /\ ~habitsLoading
  /\ IF nameMissing(habitName)
     THEN /\ statusMessage' = <<"Habit name is required">>
          /\ isSuccess' = FALSE
          /\ UNCHANGED <<tasks, habitsLoading>>
     ELSE IF daysMissing(habitFrequencyType, habitFrequencyDays)
     THEN /\ statusMessage' = <<"Please select at least one day for ", habitFrequencyType,
                                " frequency">>
          /\ isSuccess' = FALSE
          /\ UNCHANGED <<tasks, habitsLoading>>
     ELSE /\ Len(habitStore) < MaxHabits
          /\ habitsLoading' = TRUE
          /\ statusMessage' = <<"Creating habit...">>
          /\ tasks' = Issue([cmd |-> "add_habit",
                             arg |-> [name |-> habitName,
                                      frequency |-> getFrequencyData(
                                        habitFrequencyType, habitFrequencyDays,
                                        habitFrequencyInterval,
                                        habitFrequencyCustomPattern)],
                             cont |-> "handleAddHabit", cid |-> 0])
          /\ UNCHANGED isSuccess
  /\ last' = Step("handleAddHabit", 0)
  /\ UNCHANGED <<organizerVars, habitFormVars, habits, resetTimers, habitStore, frequency,
                 display>>

\* add_habit has resolved (lines 213-219): the collaborator has stored the
\* habit; loadHabits is awaited
handleAddHabitResolved(t) ==
  /\ t \in Pending({"add_habit"}, "handleAddHabit")
  /\ habitStore' = Append(habitStore, [id |-> Len(habitStore) + 1, name |-> t.arg.name,
                                       frequency |-> t.arg.frequency])
  /\ statusMessage' = <<"Successfully created habit '", textOf(habitName), "'!">>
  /\ isSuccess' = TRUE
  /\ tasks' = Done(t) (+) SetToBag({[cmd |-> "get_habits", arg |-> [x |-> 0],
                                     cont |-> "handleAddHabit", cid |-> 0]})
  /\ last' = Step("handleAddHabitResolved", 0)
  /\ UNCHANGED <<organizerVars, habitFormVars, habits, habitsLoading, resetTimers, frequency,
                 display>>

\* add_habit has rejected (lines 224-230)
handleAddHabitRejected(t) ==
  /\ t \in Pending({"add_habit"}, "handleAddHabit")
  /\ statusMessage' = <<"Error: ", "rejected">>
  /\ isSuccess' = FALSE
  /\ habitsLoading' = FALSE
  /\ tasks' = Done(t)
  /\ last' = Step("handleAddHabitRejected", 0)
  /\ UNCHANGED <<organizerVars, habitFormVars, habits, resetTimers, habitStore, frequency,
                 display>>

\* loadHabits has settled (lines 56-63, a failure is caught there); the
\* reset of the form is scheduled and isLoading cleared (lines 221-230)
handleAddHabitAfterReload(t, ok) ==
  /\ t \in Pending({"get_habits"}, "handleAddHabit")
  /\ habits' = IF ok THEN habitStore ELSE habits
  /\ resetTimers' = resetTimers + 1
  /\ habitsLoading' = FALSE
  /\ tasks' = Done(t)
  /\ last' = Step("handleAddHabitAfterReload", 0)
  /\ UNCHANGED <<organizerVars, habitFormVars, statusMessage, isSuccess, habitStore,
                 frequency, display>>

\* resetForm (lines 234-253), from the Reset button or from the timer
resetForm(fromTimer) ==
  /\ IF fromTimer THEN resetTimers > 0 /\ resetTimers' = resetTimers - 1
     ELSE ~habitsLoading /\ UNCHANGED resetTimers
  /\ habitName' = <<>>
  /\ habitFrequencyType' = "daily"
  /\ habitFrequencyDays' = <<>>
  /\ habitFrequencyInterval' = <<1>>
  /\ habitFrequencyCustomPattern' = ""
  /\ statusMessage' = <<>>
  /\ last' = Step("resetForm", 0)
  /\ UNCHANGED <<organizerVars, tasks, habits, habitsLoading, isSuccess, habitStore,
                 frequency, display>>

InitHabits ==
  /\ OrganizerAtRest
  /\ tagStore = dbTags
  /\ hexColor = <<>>
  /\ textColor = ""
  /\ HabitAtRest
  /\ ManagersAtRest
  /\ last = Step("mounted", 0)

HabitsNext ==
  \/ \E v \in HabitNames : inputHabitName(v)
  \/ \E type \in FrequencyTypes : selectFrequencyType(type)
  \/ \E day \in ClickedDays : toggleDay(day)
  \/ \E v \in {<<>>, <<2>>} : inputInterval(v)
  \/ inputCustomPattern("p")
  \/ handleAddHabit
  \/ \E t \in BagToSet(tasks) : handleAddHabitResolved(t)
  \/ \E t \in BagToSet(tasks) : handleAddHabitRejected(t)
  \/ \E t \in BagToSet(tasks), ok \in BOOLEAN : handleAddHabitAfterReload(t, ok)
  \/ \E fromTimer \in BOOLEAN : resetForm(fromTimer)

SpecHabits == InitHabits /\ [][HabitsNext]_vars

(***************************************************************************)
(* The creation forms of the tag manager (NotesList.svelte lines 1048-     *)
(* 1109) and of FolderModal (FolderModal.svelte), next to the habit form.  *)
(* Their callbacks run the handlers of the notes component.                *)
(***************************************************************************)
ManagerNames == {<<" ">>, <<"n">>}

componentVars ==
  <<backendVars, listVars, selVars, isLoading, isSearching, searchVars, navVars, modalVars,
    resume, mountPending, burst, lastLoaded>>

\* a user event on a manager: it takes one event of the budget
ManagerEvent ==
  /\ Idle
  /\ events < MaxEvents
  /\ events' = events + 1
  /\ clearView' = "none"

\* bind:value of the tag name input (lines 1118-1123)
inputTagName(v) ==
  /\ ManagerEvent
  /\ tagManagement' = [tagManagement EXCEPT !.newTagName = v]
  /\ last' = Step("inputTagName", 0)
  /\ UNCHANGED <<rendered, editor, tagStore, contrastVars, habitVars, folderModal,
                 folderStore, componentVars, tasks>>

\* the check of createTag (lines 1081-1084)
tagNameMissing(name) == trim(name) = <<>>

\* createTag up to its await (lines 1080-1091)
createTag ==
  /\ ManagerEvent
  /\ IF tagNameMissing(tagManagement.newTagName)
     THEN /\ tagManagement' =
               [tagManagement EXCEPT !.errorMessage = "Tag name cannot be empty"]
          /\ UNCHANGED tasks
     ELSE /\ HasRoom
          /\ tagManagement' = [tagManagement EXCEPT !.errorMessage = ""]
          /\ tasks' = Issue([cmd |-> "create_note_tag",
                             arg |-> [name |-> trim(tagManagement.newTagName),
                                      color |-> "#808080"],
                             cont |-> "createTag", cid |-> 0])
  /\ last' = Step("createTag", 0)
  /\ UNCHANGED <<rendered, editor, tagStore, contrastVars, habitVars, folderModal,
                 folderStore, componentVars>>

\* the tag is created: the name is cleared and the tags are reloaded
\* (lines 1092-1098)
createTagResolved(t) ==
  /\ Idle
  /\ t \in Pending({"create_note_tag"}, "createTag")
  /\ tagStore' = Append(tagStore, [id |-> Len(tagStore) + 1, name |-> textOf(t.arg.name),
                                   color |-> t.arg.color])
  /\ tagManagement' = [tagManagement EXCEPT !.newTagName = <<>>]
  /\ tasks' = Done(t) (+) SetToBag({[cmd |-> "get_all_note_tags", arg |-> [x |-> 0],
                                     cont |-> "createTag", cid |-> 0]})
  /\ last' = Step("createTagResolved", 0)
  /\ UNCHANGED <<events, clearView, rendered, editor, contrastVars, habitVars, folderModal,
                 folderStore, componentVars>>

\* the creation fails (lines 1104-1107)
createTagRejected(t) ==
  /\ Idle
  /\ t \in Pending({"create_note_tag"}, "createTag")
  /\ tagManagement' = [tagManagement EXCEPT !.errorMessage = "Error creating tag"]
  /\ tasks' = Done(t)
  /\ last' = Step("createTagRejected", 0)
  /\ UNCHANGED <<events, clearView, rendered, editor, tagStore, contrastVars, habitVars,
                 folderModal, folderStore, componentVars>>

\* loadTags of the manager has settled (lines 1069-1077, a failure is caught
\* there); onTagsUpdated runs handleTagsUpdated of the notes component
\* (lines 1100-1103, NotesManagement.svelte lines 471-474)
createTagTagsSettled(t, ok) ==
  /\ Idle
  /\ t \in Pending({"get_all_note_tags"}, "createTag")
  /\ tagManagement' =
       IF ok THEN [tagManagement EXCEPT !.tags = tagStore]
       ELSE [tagManagement EXCEPT !.errorMessage = "Error loading tags"]
  /\ tasks' = Done(t) (+) SetToBag({[cmd |-> "get_all_note_tags", arg |-> [x |-> 0],
                                     cont |-> "handleTagsUpdated", cid |-> 0]})
  /\ last' = Step(IF ok THEN "createTagTagsResolved" ELSE "createTagTagsRejected", 0)
  /\ UNCHANGED <<events, clearView, rendered, editor, tagStore, contrastVars, habitVars,
                 folderModal, folderStore, componentVars>>

createTagTagsResolved(t) == createTagTagsSettled(t, TRUE)

createTagTagsRejected(t) == createTagTagsSettled(t, FALSE)

\* bind:value of the folder name input
inputFolderName(v) ==
  /\ ManagerEvent
  /\ folderModal.view = "create"
  /\ folderModal' = [folderModal EXCEPT !.newFolderName = v]
  /\ last' = Step("inputFolderName", 0)
  /\ UNCHANGED <<rendered, editor, tagStore, contrastVars, habitVars, tagManagement,
                 folderStore, componentVars, tasks>>

\* the check of createFolder (FolderModal.svelte lines 46-49)
folderNameMissing(name) == trim(name) = <<>>

\* createFolder up to its await (FolderModal.svelte lines 45-57); the check
\* modelled is the handler's own, whatever the button allows (line 177)
createFolder ==
  /\ ManagerEvent
  /\ folderModal.view = "create"
  /\ IF folderNameMissing(folderModal.newFolderName)
     THEN /\ folderModal' =
               [folderModal EXCEPT !.errorMessage = "Folder name cannot be empty"]
          /\ UNCHANGED tasks
     ELSE /\ HasRoom
          /\ folderModal' = [folderModal EXCEPT !.errorMessage = ""]
          /\ tasks' = Issue([cmd |-> "create_folder",
                             arg |-> [name |-> trim(folderModal.newFolderName),
                                      parentId |-> Null],
                             cont |-> "createFolder", cid |-> 0])
  /\ last' = Step("createFolder", 0)
  /\ UNCHANGED <<rendered, editor, tagStore, contrastVars, habitVars, tagManagement,
                 folderStore, componentVars>>

\* the folder is created: the form is cleared and the folders are reloaded
\* (FolderModal.svelte lines 58-65)
createFolderResolved(t) ==
  /\ Idle
  /\ t \in Pending({"create_folder"}, "createFolder")
  /\ folderStore' = Append(folderStore,
                           [id |-> Len(folderStore) + 1, name |-> textOf(t.arg.name),
                            parent_id |-> t.arg.parentId])
  /\ folderModal' = [folderModal EXCEPT !.newFolderName = <<>>]
  /\ tasks' = Done(t) (+) SetToBag({[cmd |-> "get_folders", arg |-> [x |-> 0],
                                     cont |-> "createFolder", cid |-> 0]})
  /\ last' = Step("createFolderResolved", 0)
  /\ UNCHANGED <<events, clearView, rendered, editor, tagStore, contrastVars, habitVars,
                 tagManagement, componentVars>>

\* the creation fails (FolderModal.svelte lines 74-77)
createFolderRejected(t) ==
  /\ Idle
  /\ t \in Pending({"create_folder"}, "createFolder")
  /\ folderModal' = [folderModal EXCEPT !.errorMessage = "Error creating folder"]
  /\ tasks' = Done(t)
  /\ last' = Step("createFolderRejected", 0)
  /\ UNCHANGED <<events, clearView, rendered, editor, tagStore, contrastVars, habitVars,
                 tagManagement, folderStore, componentVars>>

\* loadFolders of the modal has settled (FolderModal.svelte lines 34-42);
\* onFoldersUpdated runs handleFoldersUpdated of the notes component and the
\* modal returns to its menu (lines 67-73)
createFolderFoldersSettled(t, ok) ==
  /\ Idle
  /\ t \in Pending({"get_folders"}, "createFolder")
  /\ folderModal' =
       IF ok THEN [folderModal EXCEPT !.folders = folderStore, !.view = "menu"]
       ELSE [folderModal EXCEPT !.errorMessage = "Error loading folders", !.view = "menu"]
  /\ tasks' = Done(t) (+) SetToBag({[cmd |-> "get_folders", arg |-> [x |-> 0],
                                     cont |-> "handleFoldersUpdated", cid |-> 0]})
  /\ last' = Step(IF ok THEN "createFolderFoldersResolved"
                  ELSE "createFolderFoldersRejected", 0)
  /\ UNCHANGED <<events, clearView, rendered, editor, tagStore, contrastVars, habitVars,
                 tagManagement, folderStore, componentVars>>

createFolderFoldersResolved(t) == createFolderFoldersSettled(t, TRUE)

createFolderFoldersRejected(t) == createFolderFoldersSettled(t, FALSE)

\* a reload of the folders that leaves the hierarchy as it was
foldersReloadedOnly(t, ok) ==
  /\ Idle
  /\ t \in Pending({"get_folders"}, "handleFoldersUpdated")
  /\ folders' = IF ok THEN folderStore ELSE folders
  /\ isLoading' = TRUE
  /\ tasks' = Done(t) (+) SetToBag({LoadTask(selectedFolderId, includeSubfolders, "none", 0)})
  /\ last' = Step(IF ok THEN "handleFoldersUpdatedFoldersResolved"
                  ELSE "handleFoldersUpdatedFoldersRejected", 0)
  /\ UNCHANGED <<eventVars, backendVars, notes, allNotes, tags, folderHierarchy, selVars,
                 isSearching, searchVars, navVars, modalVars, resume, mountPending, burst,
                 lastLoaded>>

\* loadFolders of the notes component has settled for handleFoldersUpdated
\* (NotesManagement.svelte lines 139-146 and 414-419): the hierarchy is
\* rebuilt and the notes are reloaded
handleFoldersUpdatedFoldersSettled(t, ok) ==
  /\ Idle
  /\ t \in Pending({"get_folders"}, "handleFoldersUpdated")
  /\ folders' = IF ok THEN folderStore ELSE folders
  /\ folderHierarchy' = buildFolderHierarchy(folders')
  /\ isLoading' = TRUE
  /\ tasks' = Done(t) (+) SetToBag({LoadTask(selectedFolderId, includeSubfolders, "none", 0)})
  /\ last' = Step(IF ok THEN "handleFoldersUpdatedFoldersResolved"
                  ELSE "handleFoldersUpdatedFoldersRejected", 0)
  /\ UNCHANGED <<eventVars, backendVars, notes, allNotes, tags, selVars, isSearching,
                 searchVars, navVars, modalVars, resume, mountPending, burst, lastLoaded>>

handleFoldersUpdatedFoldersResolved(t) == handleFoldersUpdatedFoldersSettled(t, TRUE)

handleFoldersUpdatedFoldersRejected(t) == handleFoldersUpdatedFoldersSettled(t, FALSE)

\* the habit form as the user has filled it in
InitForms ==
  /\ OrganizerAtRest
  /\ tagStore = dbTags
  /\ hexColor = <<>>
  /\ textColor = ""
  /\ habitName \in HabitNames
  /\ habitFrequencyType \in FrequencyTypes
  /\ habitFrequencyDays \in {<<>>, <<1>>}
  /\ habitFrequencyInterval = <<1>>
  /\ habitFrequencyCustomPattern = ""
  /\ habits = <<>>
  /\ habitsLoading = FALSE
  /\ statusMessage = <<>>
  /\ isSuccess = FALSE
  /\ resetTimers = 0
  /\ habitStore = <<>>
  /\ frequency = <<>>
  /\ display = ""
  /\ ManagersAtRest
  /\ last = Step("mounted", 0)

FormsNext ==
  \/ handleAddHabit
  \/ \E t \in BagToSet(tasks) : handleAddHabitResolved(t)
  \/ \E t \in BagToSet(tasks) : handleAddHabitRejected(t)
  \/ \E t \in BagToSet(tasks), ok \in BOOLEAN : handleAddHabitAfterReload(t, ok)
  \/ resetForm(TRUE)
  \/ \E v \in ManagerNames : inputTagName(v)
  \/ createTag
  \/ \E t \in BagToSet(tasks) : createTagResolved(t)
  \/ \E t \in BagToSet(tasks) : createTagRejected(t)
  \/ \E t \in BagToSet(tasks) : createTagTagsResolved(t)
  \/ \E t \in BagToSet(tasks) : createTagTagsRejected(t)
  \/ \E t \in BagToSet(tasks) : handleTagsUpdatedTagsResolved(t)
  \/ \E t \in BagToSet(tasks) : handleTagsUpdatedTagsRejected(t)
  \/ handleTagsUpdatedAfterReload
  \/ \E v \in ManagerNames : inputFolderName(v)
  \/ createFolder
  \/ \E t \in BagToSet(tasks) : createFolderResolved(t)
  \/ \E t \in BagToSet(tasks) : createFolderRejected(t)
  \/ \E t \in BagToSet(tasks) : createFolderFoldersResolved(t)
  \/ \E t \in BagToSet(tasks) : createFolderFoldersRejected(t)
  \/ \E t \in BagToSet(tasks) : handleFoldersUpdatedFoldersResolved(t)
  \/ \E t \in BagToSet(tasks) : handleFoldersUpdatedFoldersRejected(t)
  \/ \E t \in BagToSet(tasks) : loadNotesResolved(t)
  \/ \E t \in BagToSet(tasks) : loadNotesRejected(t)

SpecForms == InitForms /\ [][FormsNext]_vars

(***************************************************************************)
(* The folder manager next to the mounting notes component: folders are    *)
(* created and deleted through FolderModal while a folder is selected.     *)
(***************************************************************************)
\* the collaborator's folders without the deleted one
delete_folder(fs, id) == SelectSeq(fs, LAMBDA f : f.id # id)

\* showView (FolderModal.svelte lines 100-103)
showView(newView) ==
  /\ ManagerEvent
  /\ folderModal' = [folderModal EXCEPT !.view = newView, !.errorMessage = ""]
  /\ last' = Step("showView", 0)
  /\ UNCHANGED <<rendered, editor, tagStore, contrastVars, habitVars, tagManagement,
                 folderStore, componentVars, tasks>>

\* the delete button of a listed folder: deleteFolder up to its await
\* (FolderModal.svelte lines 81-83 and 205)
deleteFolder(folderId) ==
  /\ ManagerEvent
  /\ HasRoom
  /\ folderModal.view = "manage"
  /\ \E k \in 1..Len(folderModal.folders) : folderModal.folders[k].id = folderId
  /\ tasks' = Issue([cmd |-> "delete_folder", arg |-> [id |-> folderId],
                     cont |-> "deleteFolder", cid |-> 0])
  /\ last' = Step("deleteFolder", folderId)
  /\ UNCHANGED <<rendered, editor, tagStore, contrastVars, habitVars, managerVars,
                 componentVars>>

\* the folder is deleted and the folders are reloaded (lines 84-87)
deleteFolderResolved(t) ==
  /\ Idle
  /\ t \in Pending({"delete_folder"}, "deleteFolder")
  /\ folderStore' = delete_folder(folderStore, t.arg.id)
  /\ tasks' = Done(t) (+) SetToBag({[cmd |-> "get_folders", arg |-> [x |-> 0],
                                     cont |-> "deleteFolder", cid |-> 0]})
  /\ last' = Step("deleteFolderResolved", 0)
  /\ UNCHANGED <<events, clearView, rendered, editor, tagStore, contrastVars, habitVars,
                 tagManagement, folderModal, componentVars>>

\* the deletion fails (lines 93-96)
deleteFolderRejected(t) ==
  /\ Idle
  /\ t \in Pending({"delete_folder"}, "deleteFolder")
  /\ folderModal' = [folderModal EXCEPT !.errorMessage = "Error deleting folder"]
  /\ tasks' = Done(t)
  /\ last' = Step("deleteFolderRejected", 0)
  /\ UNCHANGED <<events, clearView, rendered, editor, tagStore, contrastVars, habitVars,
                 tagManagement, folderStore, componentVars>>

\* loadFolders of the modal has settled (lines 34-42); onFoldersUpdated runs
\* handleFoldersUpdated of the notes component (lines 89-92)
deleteFolderFoldersSettled(t, ok) ==
  /\ Idle
  /\ t \in Pending({"get_folders"}, "deleteFolder")
  /\ folderModal' =
       IF ok THEN [folderModal EXCEPT !.folders = folderStore]
       ELSE [folderModal EXCEPT !.errorMessage = "Error loading folders"]
  /\ tasks' = Done(t) (+) SetToBag({[cmd |-> "get_folders", arg |-> [x |-> 0],
                                     cont |-> "handleFoldersUpdated", cid |-> 0]})
  /\ last' = Step(IF ok THEN "deleteFolderFoldersResolved"
                  ELSE "deleteFolderFoldersRejected", 0)
  /\ UNCHANGED <<events, clearView, rendered, editor, tagStore, contrastVars, habitVars,
                 tagManagement, folderStore, componentVars>>

deleteFolderFoldersResolved(t) == deleteFolderFoldersSettled(t, TRUE)

deleteFolderFoldersRejected(t) == deleteFolderFoldersSettled(t, FALSE)

\* the notes component as constructed, the folder manager open on its
\* creation form or on its list of folders
InitManage ==
  /\ Constructed
  /\ editor = <<>>
  /\ tagStore = dbTags
  /\ hexColor = <<>>
  /\ textColor = ""
  /\ HabitAtRest
  /\ tagManagement = [newTagName |-> <<>>, errorMessage |-> "", tags |-> dbTags]
  /\ folderModal \in {[newFolderName |-> <<>>, errorMessage |-> "",
                        folders |-> dbFolders, view |-> v] : v \in {"create", "manage"}}
  /\ folderStore = dbFolders

ManageNext ==
  \/ MountNext
  \/ \E e \in Range(folderHierarchy) : selectFolder(e)
  \/ \E t \in BagToSet(tasks) : loadNotesResolved(t)
  \/ \E t \in BagToSet(tasks) : loadNotesRejected(t)
  \/ \E newView \in {"menu", "create", "manage"} : showView(newView)
  \/ \E v \in ManagerNames : inputFolderName(v)
  \/ createFolder
  \/ \E t \in BagToSet(tasks) : createFolderResolved(t)
  \/ \E t \in BagToSet(tasks) : createFolderRejected(t)
  \/ \E t \in BagToSet(tasks) : createFolderFoldersResolved(t)
  \/ \E t \in BagToSet(tasks) : createFolderFoldersRejected(t)
  \/ \E folderId \in 1..MaxFolders : deleteFolder(folderId)
  \/ \E t \in BagToSet(tasks) : deleteFolderResolved(t)
  \/ \E t \in BagToSet(tasks) : deleteFolderRejected(t)
  \/ \E t \in BagToSet(tasks) : deleteFolderFoldersResolved(t)
  \/ \E t \in BagToSet(tasks) : deleteFolderFoldersRejected(t)
  \/ \E t \in BagToSet(tasks) : handleFoldersUpdatedFoldersResolved(t)
  \/ \E t \in BagToSet(tasks) : handleFoldersUpdatedFoldersRejected(t)

SpecManage == InitManage /\ [][ManageNext]_vars

(***************************************************************************)
(* The day pickers of the habit form with the quick selections of the      *)
(* weekly picker (part_001 lines 279-301 and 508-560).                     *)
(***************************************************************************)
DayClicks == {1, 3, 7, 15}

\* a quick selection replaces the day array (part_001 lines 289-301)
selectDays(days, step) ==
  /\ habitFrequencyType = "weekly"
  /\ habitFrequencyDays' = days
  /\ last' = Step(step, 0)
  /\ UNCHANGED <<organizerVars, tasks, habitName, habitFrequencyType,
                 habitFrequencyInterval, habitFrequencyCustomPattern, habits, habitsLoading,
                 statusMessage, isSuccess, resetTimers, habitStore, frequency, display>>

selectWeekdays == selectDays(<<1, 2, 3, 4, 5>>, "selectWeekdays")

selectWeekends == selectDays(<<6, 7>>, "selectWeekends")

selectAllDays == selectDays(<<1, 2, 3, 4, 5, 6, 7>>, "selectAllDays")

DaysNext ==
  \/ \E type \in FrequencyTypes : selectFrequencyType(type)
  \/ \E day \in DayClicks : toggleDay(day)
  \/ selectWeekdays
  \/ selectWeekends
  \/ selectAllDays
  \/ resetForm(FALSE)

SpecDays == InitHabits /\ [][DaysNext]_vars

(***************************************************************************)
(* Properties.                                                             *)
(***************************************************************************)
Quiescent == InFlight = 0 /\ timers = {} /\ resume = <<>>

MutationHandlers ==
  {"saveNewNote", "updateNote", "deleteNote", "toggleNotePin", "moveNoteToFolder"}

ResolvedSteps ==
  {"saveNewNoteResolved", "updateNoteResolved", "deleteNoteResolved",
   "toggleNotePinResolved", "moveNoteToFolderResolved"}

RejectedSteps ==
  {"saveNewNoteRejected", "updateNoteRejected", "deleteNoteRejected",
   "toggleNotePinRejected", "moveNoteToFolderRejected"}

\* the commands whose response the step handles
Settled == {t \in BagToSet(tasks) : CopiesIn(t, tasks') < CopiesIn(t, tasks)}

\* the commands the step invokes
Invoked == {t \in BagToSet(tasks') : CopiesIn(t, tasks') > CopiesIn(t, tasks)}

IdsOf(ns) == {ns[k].id : k \in 1..Len(ns)}

\* the notes of a collection as the collaborator holds them (no tag colors)
Stored(ns) ==
  [k \in 1..Len(ns) |->
     [id |-> ns[k].id, title |-> ns[k].title, content |-> ns[k].content,
      folder_id |-> ns[k].folder_id, is_pinned |-> ns[k].is_pinned,
      updated_at |-> ns[k].updated_at, tags |-> ns[k].tags]]

\* the collaborator's collection for a folder scope
ScopedNotes(d, folderId, incl) == LoadResult(d, LoadTask(folderId, incl, "none", 0))

\* C1 as stated: a run of keystrokes, each arriving while the timer of the one
\* before is pending, whose final text is non-empty, issues exactly one
\* search_notes command, for the final text, once its timer has fired (and
\* none before).
C1_DebounceNonEmpty ==
  (burst.n >= 1 /\ burst.pure /\ burst.typed # <<>>)
    => IF timers # {} THEN burst.issued = <<>> ELSE burst.issued = <<burst.typed>>

\* C1 amended: the same for a final text that is non-empty after trimming; a
\* final text of white space only issues no search_notes command.
C1_Debounce ==
  /\ (burst.n >= 1 /\ burst.pure /\ trim(burst.typed) # <<>>)
       => IF timers # {} THEN burst.issued = <<>> ELSE burst.issued = <<burst.typed>>
  /\ (burst.n >= 1 /\ burst.pure /\ trim(burst.typed) = <<>>) => burst.issued = <<>>

\* two keystrokes or more were coalesced into one search for the final text
C1_Witness ==
  /\ burst.n >= 2
  /\ burst.pure
  /\ timers = {}
  /\ trim(burst.typed) # <<>>
  /\ burst.issued = <<burst.typed>>

\* C2: at most one debounce timer is pending, and a pending timer is the one
\* scheduled most recently (the one searchTimeout holds), so a superseded
\* timer can never fire.
C2_LastKeystrokeWins ==
  /\ Cardinality(timers) <= 1
  /\ \A id \in timers : id = searchTimeout /\ id = nextTimer - 1

\* a keystroke superseded a pending timer, and only the new timer is pending
C2_Witness == burst.n >= 2 /\ timers = {searchTimeout}

\* C3: when search_notes fails for the held query, the visible collection is
\* the last successfully loaded collection filtered by that query
\* (case-insensitive, title or content), and isSearching is false.
C3_SearchFallback ==
  last = "performSearchRejected"
    => notes = localFilter(lastLoaded, searchQuery) /\ ~isSearching

\* C4: the step that handles a successful create, update, delete, pin-toggle
\* or move command leaves the visible collection alone and invokes the
\* folder-scoped reload of its handler.
C4_ReloadAfterWrite ==
  [][last' \in ResolvedSteps =>
       /\ notes' = notes
       /\ isLoading'
       /\ \E t \in Invoked :
            /\ t.cmd \in LoadCmds
            /\ t.cont \in MutationHandlers
            /\ t = LoadTask(selectedFolderId, includeSubfolders, t.cont, t.cid)]_vars

\* C5: a reload that completes successfully while a note is selected makes the
\* selection the reloaded note with the selected id when the reloaded
\* collection has one, and null when it has none; so right after a successful
\* reload the selection is null or a member of the visible collection.
C5_SelectionReconciliation ==
  [][last' = "loadNotesResolved" =>
       /\ selectedNote # <<>> =>
            IF selectedNote[1].id \in IdsOf(notes')
            THEN /\ selectedNote' # <<>>
                 /\ selectedNote'[1].id = selectedNote[1].id
                 /\ selectedNote'[1] \in Range(notes')
            ELSE selectedNote' = <<>>
       /\ selectedNote = <<>> => selectedNote' = <<>>]_vars

\* a reload has just completed and the selected note is the reloaded one
C5_Witness ==
  /\ last = "loadNotesResolved"
  /\ selectedNote # <<>>
  /\ selectedNote[1] \in Range(notes)

\* C6: when saveNewNote resumes after the reload that follows a successful
\* create_note, isCreatingNew becomes false, and the selection becomes the
\* reloaded note with the new id when the reloaded collection holds it and is
\* left as the reload left it otherwise.
C6_CreateAutoSelect ==
  [][last' = "saveNewNoteAfterReload" =>
       /\ ~isCreatingNew'
       /\ IF resume[1].cid \in IdsOf(notes)
          THEN /\ selectedNote' # <<>>
               /\ selectedNote'[1].id = resume[1].cid
               /\ selectedNote'[1] \in Range(notes)
          ELSE selectedNote' = selectedNote]_vars

\* the created note has just been opened by its create handler
C6_Witness ==
  /\ last = "saveNewNoteAfterReload"
  /\ ~isCreatingNew
  /\ selectedNote # <<>>
  /\ selectedNote[1].id > Len(StoredNotes)
  /\ selectedNote[1] \in Range(notes)

\* C7: the step that handles a successful delete_note clears the selection
\* when the deleted note is the selected one and leaves it alone otherwise;
\* when deleteNote resumes after its reload the modal is closed, noteToDelete
\* is null and the deleted note is not selected.
C7_DeleteClearsSelection ==
  [][/\ last' = "deleteNoteResolved" =>
          \A t \in Settled :
            IF selectedNote # <<>> /\ selectedNote[1].id = t.arg.id
            THEN selectedNote' = <<>>
            ELSE selectedNote' = selectedNote
     /\ last' = "deleteNoteAfterReload" =>
          /\ ~showDeleteModal'
          /\ noteToDelete' = <<>>
          /\ selectedNote' = <<>> \/ selectedNote'[1].id # resume[1].cid]_vars

\* C8: when a mutation handler has resumed after its successful reload and
\* nothing is in flight or pending, with an empty query, the visible
\* collection is the collaborator's collection for the current folder scope.
C8_VisibleMatchesCollaborator ==
  [][(/\ resume # <<>>
      /\ resume[1].cont \in MutationHandlers
      /\ resume[1].ok
      /\ Quiescent'
      /\ searchQuery' = <<>>)
       => Stored(notes') = ScopedNotes(db', selectedFolderId', includeSubfolders')]_vars

\* C9 as stated: a failed load leaves the visible collection as it was and
\* isLoading false.
C9_LoadFailureKeepsView ==
  [][last' = "loadNotesRejected" => notes' = notes /\ ~isLoading']_vars

\* C9 amended: a failed load empties the visible collection; isLoading becomes
\* false and the selection, the query, the folder scope, the modal and the
\* collaborator's store stay as they were.
C9_LoadFailureEmptiesView ==
  [][last' = "loadNotesRejected" =>
       /\ notes' = <<>>
       /\ ~isLoading'
       /\ UNCHANGED <<selVars, searchVars, navVars, modalVars, backendVars, isSearching,
                      folders, tags, folderHierarchy>>
       /\ Invoked = {}]_vars

\* a load has just failed after a non-empty collection had been loaded
C9_Witness ==
  /\ last = "loadNotesRejected"
  /\ lastLoaded # <<>>
  /\ notes = <<>>
  /\ ~isLoading

\* C10: a create, update, delete, pin-toggle or move handler whose command
\* fails changes nothing: neither the step that issues the command nor the
\* step that handles its failure changes the visible collection, the
\* selection, isCreatingNew, the delete modal or noteToDelete, and the failure
\* step changes no store and invokes no command (no reload).
C10_MutationFailureUnchanged ==
  [][/\ last' \in MutationHandlers =>
          UNCHANGED <<notes, selectedNote, isCreatingNew, showDeleteModal, noteToDelete>>
     /\ last' \in RejectedSteps =>
          /\ UNCHANGED <<notes, selectedNote, isCreatingNew, showDeleteModal,
                         noteToDelete, isLoading, backendVars>>
          /\ Invoked = {}]_vars

\* a delete has just failed while its confirmation is open
C10_Witness ==
  /\ last = "deleteNoteRejected"
  /\ showDeleteModal
  /\ noteToDelete # <<>>

C12_ClearRestoresView ==
  [][/\ last' = "clearSearch" =>
          /\ searchQuery' = <<>>
          /\ Invoked = {LoadTask(selectedFolderId, includeSubfolders, "none", 0)}
     /\ clearView' = "restored" =>
          /\ searchQuery' = <<>>
          /\ Stored(notes') = ScopedNotes(db', selectedFolderId', includeSubfolders')]_vars

\* the colors prepareNotesWithTagColors is to give a note: for each tag name
\* of the note, the color of the first held tag of that name, when it has one
HeldTagColors(note) ==
  UNION {{<<nm, tags[k].color>> :
            k \in {i \in 1..Len(tags) :
                     /\ tags[i].name = nm
                     /\ \A j \in 1..(i - 1) : tags[j].name # nm
                     /\ tags[i].color # ""}} :
         nm \in Range(note.tags)}

\* C13: the step that handles a successful search_notes response replaces the
\* visible collection by the returned notes in the returned order, each with
\* the tag colors resolved against the tags held in that step, and sets
\* isSearching to false.
C13_SearchSuccess ==
  [][last' = "performSearchResolved" =>
       \A t \in Settled :
         /\ Stored(notes') = search_notes(db, t.arg.query)
         /\ \A k \in 1..Len(notes') : notes'[k].tag_colors = HeldTagColors(notes'[k])
         /\ ~isSearching']_vars

\* a search has just returned notes, one of them with a colored tag
C13_Witness ==
  /\ last = "performSearchResolved"
  /\ ~isSearching
  /\ Len(notes) >= 2
  /\ \E k \in 1..Len(notes) : notes[k].tag_colors # {}

\* position of a note in a collection of notes with distinct ids
PosIn(ns, note) == CHOOSE k \in 1..Len(ns) : ns[k].id = note.id

\* the same notes, each once
Permutation(xs, ys) ==
  /\ Len(xs) = Len(ys)
  /\ \A k \in 1..Len(ys) : Cardinality({j \in 1..Len(xs) : xs[j] = ys[k]}) = 1

\* C14: the output of sortNotes has every pinned note before every unpinned
\* note and is a permutation of the input; the input is left as it was.
C14_PinnedFirst ==
  [][last' = "render" =>
       /\ \A i, j \in 1..Len(rendered') :
            (rendered'[i].is_pinned /\ ~rendered'[j].is_pinned) => i < j
       /\ Permutation(rendered', notes)
       /\ notes' = notes]_vars

\* an input with an unpinned note before a pinned one has been sorted
C14_Witness ==
  /\ last = "render"
  /\ \E i, j \in 1..Len(notes) : i < j /\ ~notes[i].is_pinned /\ notes[j].is_pinned
  /\ rendered # notes

\* C15: within the pinned notes and within the unpinned notes the output of
\* sortNotes is in descending updated_at, and two notes of one group with
\* equal updated_at are in their input order.
C15_RecencyStable ==
  last = "render" =>
    \A i, j \in 1..Len(rendered) :
      (i < j /\ rendered[i].is_pinned = rendered[j].is_pinned) =>
        /\ rendered[i].updated_at >= rendered[j].updated_at
        /\ rendered[i].updated_at = rendered[j].updated_at
             => PosIn(notes, rendered[i]) < PosIn(notes, rendered[j])

\* an input with a tie in one group and an older note ahead of a newer one
C15_Witness ==
  /\ last = "render"
  /\ \E i, j \in 1..Len(notes) :
       /\ i < j
       /\ notes[i].is_pinned = notes[j].is_pinned
       /\ notes[i].updated_at = notes[j].updated_at
  /\ \E i, j \in 1..Len(notes) :
       /\ i < j
       /\ notes[i].is_pinned = notes[j].is_pinned
       /\ notes[i].updated_at < notes[j].updated_at

\* C16: sorting the output of sortNotes again gives the same sequence.
C16_SortIdempotent == last = "render" => sortNotes(rendered) = rendered

\* three notes given out of order, two of them tied, have been sorted
C16_Witness ==
  /\ last = "render"
  /\ Len(notes) = 3
  /\ rendered # notes
  /\ \E i, j \in 1..Len(notes) :
       /\ i < j
       /\ notes[i].is_pinned = notes[j].is_pinned
       /\ notes[i].updated_at = notes[j].updated_at

\* C17: three unpinned notes with updated_at 1 < 2 < 3 (ids 1, 2, 3) are
\* displayed in the order 3, 2, 1; when the pin of note 1 has been toggled,
\* the command has succeeded and the reload has resolved, nothing else
\* having happened, the displayed order is 1, 3, 2.
C17_PinScenario ==
  /\ (events = 0 /\ last = "render") => [k \in 1..Len(rendered) |-> rendered[k].id] = <<3, 2, 1>>
  /\ (/\ events = 1
      /\ db = [ThreeNotesDb EXCEPT ![1].is_pinned = TRUE]
      /\ lastLoaded = prepareNotesWithTagColors(get_notes(db), tags)
      /\ last = "render")
       => [k \in 1..Len(rendered) |-> rendered[k].id] = <<1, 3, 2>>

\* the list has been rendered after the pin of note 1 and its reload
C17_Witness ==
  /\ events = 1
  /\ last = "render"
  /\ db[1].is_pinned
  /\ InFlight = 0
  /\ [k \in 1..Len(rendered) |-> rendered[k].id] = <<1, 3, 2>>

\* the n-th ancestor of a folder id in a folder list, Null past a root or a
\* missing folder
RECURSIVE Ancestor(_, _, _)
Ancestor(fs, id, n) ==
  LET idx == {k \in 1..Len(fs) : fs[k].id = id}
      parent == IF idx = {} THEN Null ELSE fs[CHOOSE k \in idx : TRUE].parent_id
  IN IF n = 0 THEN id ELSE Ancestor(fs, parent, n - 1)

Acyclic(fs) ==
  \A k \in 1..Len(fs), n \in 1..Len(fs) : Ancestor(fs, fs[k].id, n) # fs[k].id

\* the ids of a sequence of folders or hierarchy entries
FolderIds(es) == [k \in 1..Len(es) |-> es[k].id]

\* C18: for an acyclic folder list the built hierarchy lists the root folders
\* in input order, each followed by the depth-first pre-order of its
\* descendants (children in input order) before the next root: the nearest
\* entry before a folder entry that has a smaller level is the entry of its
\* parent (the entry of all notes for a root) and is one level above it,
\* every child of a listed folder is listed, siblings are in input order, and
\* no folder is listed twice.
C18_HierarchyOrder ==
  (last = "handleFoldersUpdated" /\ Acyclic(folders)) =>
    LET H == folderHierarchy
    IN /\ FolderIds(SelectSeq(H, LAMBDA e : e.level = 1))
            = FolderIds(SelectSeq(folders, LAMBDA f : f.parent_id = Null))
       /\ \A k \in 2..Len(H) :
            LET above == {j \in 1..(k - 1) : H[j].level < H[k].level}
                p == CHOOSE j \in above : \A i \in above : i <= j
            IN /\ above # {}
               /\ H[p].id = H[k].parent_id
               /\ H[k].level = H[p].level + 1
       /\ \A k \in 2..Len(H), j \in 1..Len(folders) :
            folders[j].parent_id = H[k].id => \E i \in (k + 1)..Len(H) : H[i].id = folders[j].id
       /\ \A i, j \in 2..Len(H) :
            (i < j /\ H[i].parent_id = H[j].parent_id)
              => \E a, b \in 1..Len(folders) :
                   a < b /\ folders[a].id = H[i].id /\ folders[b].id = H[j].id
       /\ \A i, j \in 1..Len(H) : H[i].id = H[j].id => i = j

\* the hierarchy of folders 1 (root), 2 (child of 1), 3 (root) has been built
C18_Witness ==
  /\ last = "handleFoldersUpdated"
  /\ FolderIds(folders) = <<1, 2, 3>>
  /\ [k \in 1..3 |-> folders[k].parent_id] = <<Null, 1, Null>>
  /\ FolderIds(folderHierarchy) = <<Null, 1, 2, 3>>
  /\ [k \in 1..4 |-> folderHierarchy[k].level] = <<0, 1, 2, 1>>

\* C19: for every folder list, the empty one included, the first entry of the
\* built hierarchy is the entry of all notes (id null, name "All Notes",
\* level 0, hasChildren false), and no other entry has id null or level 0.
C19_SyntheticRoot ==
  last = "handleFoldersUpdated" =>
    /\ Len(folderHierarchy) >= 1
    /\ folderHierarchy[1].id = Null
    /\ folderHierarchy[1].name = "All Notes"
    /\ folderHierarchy[1].level = 0
    /\ ~folderHierarchy[1].hasChildren
    /\ \A k \in 2..Len(folderHierarchy) :
         folderHierarchy[k].id # Null /\ folderHierarchy[k].level # 0

\* the hierarchy of two folders or more has been built with folder entries
C19_Witness ==
  /\ last = "handleFoldersUpdated"
  /\ Len(folders) >= 2
  /\ Len(folderHierarchy) >= 3
  /\ folderHierarchy[1].name = "All Notes"

\* C20: a folder entry of the built hierarchy has hasChildren true exactly
\* when a folder of the input list has that folder's id as its parent_id.
C20_HasChildren ==
  last = "handleFoldersUpdated" =>
    \A k \in 2..Len(folderHierarchy) :
      folderHierarchy[k].hasChildren
        <=> (\E j \in 1..Len(folders) : folders[j].parent_id = folderHierarchy[k].id)

\* a built hierarchy holds a folder with children and a folder without
C20_Witness ==
  /\ last = "handleFoldersUpdated"
  /\ \E k \in 2..Len(folderHierarchy) : folderHierarchy[k].hasChildren
  /\ \E k \in 2..Len(folderHierarchy) : ~folderHierarchy[k].hasChildren

\* C27: no sequence check discards a late search response: the step that
\* handles a successful search_notes response whose query is no longer the
\* held query text still replaces the visible collection by that older
\* query's results and leaves the held query text as it is, so an execution
\* exists that ends with the older query's results under the newer query.
C27_StaleSearchApplied ==
  [][last' = "performSearchResolved" =>
       \A t \in Settled :
         t.arg.query # searchQuery =>
           /\ Stored(notes') = search_notes(db, t.arg.query)
           /\ searchQuery' = searchQuery]_vars

\* searches were issued for "ab" and, after the next keystroke, for "a"; both
\* responses have been applied, the one for "ab" last: nothing is in flight,
\* the visible collection holds the results for "ab", the held query is "a"
C27_Witness ==
  /\ last = "performSearchResolved"
  /\ burst.issued = << <<"a">> >>
  /\ searchQuery = <<"a">>
  /\ tasks = EmptyBag
  /\ timers = {}
  /\ Stored(notes) = search_notes(db, <<"a", "b">>)
  /\ Stored(notes) # search_notes(db, searchQuery)

\* a folder id whose chain of parents stays within the list and ends at a
\* root folder (parent_id null)
Rooted(fs, id) ==
  \E n \in 1..Len(fs) :
    /\ Ancestor(fs, id, n) = Null
    /\ \A m \in 0..(n - 1) : \E k \in 1..Len(fs) : fs[k].id = Ancestor(fs, id, m)

\* C28 as stated: a folder list with a cyclic parent chain is never turned
\* into a hierarchy, because the build does not terminate.
C28_CyclicNeverBuilt ==
  last = "handleFoldersUpdated" => Acyclic(folders)

\* C28: for a folder list with unique ids that contains a cyclic parent chain
\* the build terminates: the hierarchy lists, after the entry of all notes,
\* exactly the folders whose chain of parents ends at a root, each once, and
\* none of the folders on or below the cycle.
C28_CyclicOmitted ==
  (last = "handleFoldersUpdated" /\ ~Acyclic(folders)) =>
    LET H == folderHierarchy
    IN /\ Len(H) >= 1
       /\ Len(H) <= Len(folders)
       /\ {H[k].id : k \in 2..Len(H)}
            = {folders[j].id : j \in {i \in 1..Len(folders) : Rooted(folders, folders[i].id)}}
       /\ \A i, j \in 1..Len(H) : H[i].id = H[j].id => i = j
       /\ \A k \in 2..Len(H), n \in 1..Len(folders) :
            Ancestor(folders, H[k].id, n) # H[k].id

\* the hierarchy of folders 1 (root), 2 (child of 3), 3 (child of 2) has been
\* built and lists folder 1 only
C28_Witness ==
  /\ last = "handleFoldersUpdated"
  /\ FolderIds(folders) = <<1, 2, 3>>
  /\ [k \in 1..3 |-> folders[k].parent_id] = <<Null, 3, 2>>
  /\ FolderIds(folderHierarchy) = <<Null, 1>>

\* C29: once the content pane has been rendered, the form state of the open
\* editor equals the fields of the selected note, also after a reload has
\* replaced the selected note by a fresh object of the same id; and a save
\* sends the pin flag and the folder of the selected note as it is then.
C29_EditorRefreshed ==
  [][/\ (EditorSynced' /\ editor' # <<>>) => editor'[1] = formOf(selectedNote'[1])
     /\ last' = "updateNote" =>
          \A t \in Invoked :
            /\ t.arg.isPinned = selectedNote[1].is_pinned
            /\ t.arg.folderId = selectedNote[1].folder_id]_vars

\* the colors a note is to hold under a tag list: a tag name of the note is
\* mapped to a color exactly when the list has a tag of that name with that
\* color, and no other name is mapped
ColorsReflect(note, tagsList) ==
  /\ \A pair \in note.tag_colors : pair[1] \in Range(note.tags)
  /\ \A nm \in Range(note.tags) :
       \A col \in {"#ff0000", "#00ff00", "#0000ff", ""} :
         <<nm, col>> \in note.tag_colors
           <=> (col # "" /\ \E i \in 1..Len(tagsList) :
                               tagsList[i].name = nm /\ tagsList[i].color = col)

IsHexColor(hex, n) ==
  /\ Len(hex) = n + 1
  /\ hex[1] = "#"
  /\ \A k \in 2..(n + 1) : digit16(hex[k]) # NaN

\* C22: for a color "#RRGGBB", and for "#RGB" with each digit doubled, the
\* text color is "#000000" exactly when 299*R + 587*G + 114*B >= 128000 and
\* "#ffffff" otherwise; for a text without a leading "#" or of any other
\* length it is "inherit"; so "#000000" gives "#ffffff", "#ffffff" gives
\* "#000000", "#3b82f6" gives "#ffffff" and "not-a-color" gives "inherit".
C22_ContrastColor ==
  last = "styleBadge" =>
    LET h == hexColor
        v(k) == digit16(h[k])
        Black(R, G, B) == 299 * R + 587 * G + 114 * B >= 128000
    IN /\ IsHexColor(h, 6) =>
            textColor = IF Black(16 * v(2) + v(3), 16 * v(4) + v(5), 16 * v(6) + v(7))
                        THEN "#000000" ELSE "#ffffff"
       /\ IsHexColor(h, 3) =>
            textColor = IF Black(17 * v(2), 17 * v(3), 17 * v(4))
                        THEN "#000000" ELSE "#ffffff"
       /\ (h = <<>> \/ h[1] # "#" \/ Len(h) \notin {4, 7}) => textColor = "inherit"
       /\ h = <<"#", "0", "0", "0", "0", "0", "0">> => textColor = "#ffffff"
       /\ h = <<"#", "f", "f", "f", "f", "f", "f">> => textColor = "#000000"
       /\ h = <<"#", "3", "b", "8", "2", "f", "6">> => textColor = "#ffffff"
       /\ h = <<"n", "o", "t", "-", "a", "-", "c", "o", "l", "o", "r">>
            => textColor = "inherit"

\* the text color of "#3b82f6" has been computed and is white
C22_Witness ==
  /\ last = "styleBadge"
  /\ hexColor = <<"#", "3", "b", "8", "2", "f", "6">>
  /\ textColor = "#ffffff"

\* C23: for every discriminator and every form state getFrequencyData
\* returns an object with exactly one variant, the one of the discriminator;
\* an unknown discriminator gives Daily; for interval a missing or zero
\* value is encoded as Interval with 1 day.
C23_EncodingTotal ==
  frequency # <<>> =>
    LET f == frequency[1]
        type == habitFrequencyType
    IN /\ Cardinality(DOMAIN f) = 1
       /\ type = "daily" => DOMAIN f = {"Daily"}
       /\ type = "weekly" => DOMAIN f = {"Weekly"}
       /\ type = "monthly" => DOMAIN f = {"Monthly"}
       /\ type = "interval" => DOMAIN f = {"Interval"}
       /\ type = "custom" => DOMAIN f = {"Custom"}
       /\ type \notin FrequencyTypes => DOMAIN f = {"Daily"}
       /\ (type = "interval" /\ habitFrequencyInterval \in {<<>>, <<0>>})
            => f.Interval.days = 1
       /\ (type = "interval" /\ habitFrequencyInterval \notin {<<>>, <<0>>})
            => f.Interval.days = habitFrequencyInterval[1]

\* an interval of zero days has been encoded as Interval with 1 day
C23_Witness ==
  /\ last = "getFrequencyData"
  /\ habitFrequencyType = "interval"
  /\ habitFrequencyInterval = <<0>>
  /\ frequency = << [Interval |-> [days |-> 1]] >>

ShortDayNames == <<"Mon", "Tue", "Wed", "Thu", "Fri", "Sat", "Sun">>

\* the display text the chosen schedule is to have
ScheduleText(type, days, interval, pattern) ==
  CASE type = "daily" -> "Daily"
    [] type = "weekly" ->
         IF Range(days) = 1..7 THEN "Every day"
         ELSE IF days = <<>> THEN "Weekly: Mon, Tue, Wed, Thu, Fri"
         ELSE "Weekly: " \o join([k \in 1..Len(days) |->
                                    IF days[k] \in 1..7 THEN ShortDayNames[days[k]]
                                    ELSE "no day of the week"], ", ")
    [] type = "monthly" ->
         "Monthly on day" \o (IF Len(days) > 1 THEN "s" ELSE "") \o ": "
           \o join([k \in 1..Len(days) |-> ToString(days[k])], ", ")
    [] type = "interval" ->
         LET n == IF interval \in {<<>>, <<0>>} THEN 1 ELSE interval[1]
         IN "Every " \o ToString(n) \o " day" \o (IF n # 1 THEN "s" ELSE "")
    [] type = "custom" -> "Custom: " \o pattern

\* C26: for each of the five discriminators the display of the encoded form
\* is the display text of the chosen schedule: "Daily"; for weekly "Every
\* day" when all 7 days are chosen, else "Weekly: " and the 3-letter names
\* of the chosen days in ascending order, an empty selection giving "Weekly:
\* Mon, Tue, Wed, Thu, Fri"; for monthly "Monthly on day", "s" iff more than
\* one day, ": " and the ascending day numbers; for interval n "Every n
\* day" and "s" iff n is not 1; for custom "Custom: " and the pattern.
C26_RoundTrip ==
  (display # "" /\ habitFrequencyType \in FrequencyTypes) =>
    display = ScheduleText(habitFrequencyType, habitFrequencyDays, habitFrequencyInterval,
                           habitFrequencyCustomPattern)

\* C24: submitting the form with a non-empty name, frequency type weekly and
\* no day selected is not rejected: add_habit is invoked with the frequency
\* Weekly{days: [1,2,3,4,5]}.
C24_WeeklyEmptyDefault ==
  [][(/\ last' = "handleAddHabit"
      /\ ~nameMissing(habitName)
      /\ habitFrequencyType = "weekly"
      /\ habitFrequencyDays = <<>>
      /\ Len(habitStore) < MaxHabits) =>
       /\ \E t \in Invoked :
            /\ t.cmd = "add_habit"
            /\ t.arg.frequency = [Weekly |-> [days |-> <<1, 2, 3, 4, 5>>]]
       /\ statusMessage' = <<"Creating habit...">>]_vars

\* C30: after any sequence of operations on the form, a habit submitted
\* with frequency type weekly is sent with Weekly.days a non-empty subset of
\* 1..7, and one submitted with type monthly with Monthly.days a non-empty
\* subset of 1..31.
C30_WeeklyDaysAreWeekDays ==
  [][last' = "handleAddHabit" =>
       \A t \in Invoked :
         /\ habitFrequencyType = "weekly" =>
              /\ DOMAIN t.arg.frequency = {"Weekly"}
              /\ t.arg.frequency.Weekly.days # <<>>
              /\ Range(t.arg.frequency.Weekly.days) \subseteq 1..7
         /\ habitFrequencyType = "monthly" =>
              /\ DOMAIN t.arg.frequency = {"Monthly"}
              /\ t.arg.frequency.Monthly.days # <<>>
              /\ Range(t.arg.frequency.Monthly.days) \subseteq 1..31]_vars


\* the status texts of a submission that validation stopped (lines 163-180)
ValidationErrors == {"Habit name is required", "Please select at least one day for "}

\* C25: validation precedes any external call: a submission of the habit
\* form with an empty or whitespace-only name, or with frequency type monthly
\* and no day, invokes no command, sets the status text to an error message
\* with isSuccess false, leaves isLoading false and leaves the habit list and
\* the form fields unchanged; createTag and createFolder with an empty name
\* invoke no command
C25_ValidationFirst ==
  [][/\ (/\ last' = "handleAddHabit"
         /\ \/ trim(habitName) = <<>>
            \/ habitFrequencyType = "monthly" /\ habitFrequencyDays = <<>>)
        => /\ Invoked = {}
           /\ statusMessage' # <<>>
           /\ Head(statusMessage') \in ValidationErrors
           /\ ~isSuccess'
           /\ ~habitsLoading /\ ~habitsLoading'
           /\ habits' = habits
           /\ habitFormVars' = habitFormVars
     /\ (last' = "createTag" /\ trim(tagManagement.newTagName) = <<>>) => Invoked = {}
     /\ (last' = "createFolder" /\ trim(folderModal.newFolderName) = <<>>)
        => Invoked = {}]_vars

\* the habit form, the tag form and the folder form were each submitted with
\* a blank name and nothing was asked of the collaborator
C25_Witness ==
  /\ last = "createFolder"
  /\ habitName = <<" ">>
  /\ statusMessage = <<"Habit name is required">>
  /\ tagManagement.errorMessage = "Tag name cannot be empty"
  /\ folderModal.errorMessage = "Folder name cannot be empty"
  /\ tasks = EmptyBag

\* C39: the delete confirmation is shown exactly when noteToDelete is not
\* null, across confirmDeleteNote, cancelDeleteNote and a delete that
\* succeeds or fails
C39_ModalConsistency == showDeleteModal <=> noteToDelete # <<>>

\* a confirmed delete has succeeded and, after its reload, closed the modal
C39_Witness ==
  /\ last = "deleteNoteAfterReload"
  /\ ~showDeleteModal
  /\ noteToDelete = <<>>
  /\ \E i \in NoteIds : db[i].st = "deleted"

\* C32: creation mode and a selection never hold together, also when an
\* update, pin toggle or move issued before createNewNote completes after it
C32_EditorModeExclusion == ~(isCreatingNew /\ selectedNote # <<>>)

\* C33: when the confirmation is cancelled while delete_note is in flight and
\* the command then succeeds, the collection is reloaded and a selection of
\* the deleted note is cleared
C33_CancelDuringDelete ==
  [][(last = "cancelDeleteNote" /\ last' = "deleteNoteResolved") =>
       /\ \E l \in Invoked : l.cmd \in LoadCmds
       /\ \A t \in Settled :
            (selectedNote # <<>> /\ selectedNote[1].id = t.arg.id) => selectedNote' = <<>>]_vars

\* C34: when the last of the loads issued by selectFolder or
\* toggleIncludeSubfolders has responded, the visible collection is the one
\* of the currently selected folder scope, whatever the order of the responses
C34_LastSelectionWins ==
  [][(/\ last \in {"selectFolder", "toggleIncludeSubfolders", "loadNotesResolved"}
      /\ last' = "loadNotesResolved"
      /\ \A t \in Settled : t.cont = "none"
      /\ InFlight' = 0)
       => Stored(notes') = ScopedNotes(db', selectedFolderId', includeSubfolders')]_vars

\* C35: while a non-empty query is held, the reload of a mutation (pin
\* toggle, move, update, delete) that leaves nothing in flight leaves the
\* visible collection restricted to the notes matching the held query
C35_FilterSurvivesMutation ==
  [][(/\ last' = "loadNotesResolved"
      /\ \A t \in Settled : t.cont \in MutationHandlers
      /\ trim(searchQuery) # <<>>
      /\ timers = {}
      /\ InFlight' = 0)
       => Range(Stored(notes')) \subseteq Range(search_notes(db', searchQuery'))]_vars

\* C37: isSearching is true exactly in the states in which a search_notes
\* command is in flight, also when two search commands overlap and one of
\* them completes first
C37_SearchingIndicator ==
  isSearching <=> (\E t \in BagToSet(tasks) : t.cmd = "search_notes")

\* C38: for a folder list with unique ids every folder whose chain of
\* parents ends at null is listed exactly once in the built hierarchy, every
\* folder whose chain does not end at null (a missing parent, on or below a
\* cycle) is not listed, and the hierarchy has one entry more than there are
\* such root-reachable folders
C38_ReachableOnce ==
  last = "handleFoldersUpdated" =>
    LET H == folderHierarchy
        R == {i \in 1..Len(folders) : Rooted(folders, folders[i].id)}
    IN /\ \A i \in 1..Len(folders) :
            Cardinality({k \in 2..Len(H) : H[k].id = folders[i].id})
              = IF i \in R THEN 1 ELSE 0
       /\ Len(H) = 1 + Cardinality(R)
       /\ H[1].id = Null

\* the hierarchy of folders 1 (root) and 2 (child of folder 3, which is not
\* in the list) has been built and lists folder 1 only
C38_Witness ==
  /\ last = "handleFoldersUpdated"
  /\ FolderIds(folders) = <<1, 2>>
  /\ folders[1].parent_id = Null
  /\ folders[2].parent_id = 3
  /\ FolderIds(folderHierarchy) = <<Null, 1>>

\* a day array in strictly ascending order
StrictlyAscending(days) == \A i, j \in 1..Len(days) : i < j => days[i] < days[j]

\* C40: through toggleDay, the quick selections and resetForm the day array
\* stays strictly ascending without duplicates; a toggle removes the day when
\* it is selected and adds it when it is not, so toggling a day twice
\* restores the selection
C40_SortedDaySet ==
  [][/\ StrictlyAscending(habitFrequencyDays')
     /\ last' = "toggleDay" =>
          \E day \in 1..31 :
            /\ Range(habitFrequencyDays')
                 = IF day \in Range(habitFrequencyDays)
                   THEN Range(habitFrequencyDays) \ {day}
                   ELSE Range(habitFrequencyDays) \cup {day}
            /\ toggled(habitFrequencyDays', day) = habitFrequencyDays
     /\ last' = "resetForm" => habitFrequencyDays' = <<>>]_vars

\* after the weekend selection, day 15 of the monthly picker and then day 3
\* were toggled in
C40_Witness ==
  /\ last = "toggleDay"
  /\ habitFrequencyDays = <<3, 6, 7, 15>>

\* the ids of the folders the hierarchy lists after the entry of all notes
ListedFolders(H) == {H[k].id : k \in 2..Len(H)}

\* the ids of the folders of a list whose chain of parents ends at a root
RootedFolders(fs) == {fs[i].id : i \in {j \in 1..Len(fs) : Rooted(fs, fs[j].id)}}

\* C31 as stated: in every quiescent state the hierarchy is the one built
\* from the held folder list, and when handleFoldersUpdated has reloaded the
\* folders after a create or delete, the hierarchy lists the folders the
\* collaborator then holds: the created one and not the deleted one
C31_HierarchyTracksStore ==
  [][/\ Quiescent' => folderHierarchy' = buildFolderHierarchy(folders')
     /\ last' \in {"handleFoldersUpdatedFoldersResolved",
                   "handleFoldersUpdatedFoldersRejected"}
          => ListedFolders(folderHierarchy') = RootedFolders(folderStore')]_vars

\* C31 amended: in every quiescent state the hierarchy is the one built from
\* the held folder list; when handleFoldersUpdated reloads the folders
\* successfully the held list becomes the collaborator's and the hierarchy
\* lists its root-reachable folders, the created one and not the deleted one;
\* when that reload fails the held list stays and the hierarchy is rebuilt
\* from it
C31_HierarchyTracksHeldList ==
  [][/\ Quiescent' => folderHierarchy' = buildFolderHierarchy(folders')
     /\ last' = "handleFoldersUpdatedFoldersResolved"
          => /\ folders' = folderStore'
             /\ ListedFolders(folderHierarchy') = RootedFolders(folderStore')
     /\ last' = "handleFoldersUpdatedFoldersRejected"
          => /\ folders' = folders
             /\ folderHierarchy' = buildFolderHierarchy(folders)]_vars

\* a folder was created through the modal and handleFoldersUpdated has
\* reloaded the folders: the hierarchy lists the new folder
C31_Witness ==
  /\ last = "handleFoldersUpdatedFoldersResolved"
  /\ FolderIds(folderStore) = <<1, 2>>
  /\ FolderIds(folderHierarchy) = <<Null, 1, 2>>

\* C36: in every quiescent state selectedFolderId is null or the id of a
\* folder the hierarchy lists, also after the selected folder was deleted
\* through the folder modal and the folders were reloaded
C36_SelectedFolderExists ==
  Quiescent => (selectedFolderId = Null \/ selectedFolderId \in ListedFolders(folderHierarchy))

====
